---------------------------- MODULE Spec2Model ----------------------------
(***************************************************************************)
(* Verification model of the orb anchoring node.                           *)
(*                                                                         *)
(* Seventeen sub-systems are modelled, each with a specification over      *)
(* the shared variables (the variables of the other sub-systems stay       *)
(* unchanged):                                                             *)
(*   LifecycleSpec : lifecycle.Lifecycle (Start / Stop, atomic state)      *)
(*   TaskMgrSpec   : task manager permit + expiry service sweeps           *)
(*   Spec          : observer (anchor / DID topics, ack / nack) and the    *)
(*                   DID -> anchor index                                   *)
(*   ResolverSpec  : CAS resolver (inline data, local CAS, IPFS, links)    *)
(*   WalkSpec      : walk over the unprocessed ancestors of an anchor      *)
(*   PageSpec      : paged ordered collections of the REST handlers        *)
(*   IterSpec      : activity iterator of the ActivityPub client           *)
(*   LikeSpec      : Like activities posted after an anchor is processed   *)
(*   PoolSpec      : round-robin pool of AMQP publishers                   *)
(*   StoreSpec     : DID -> anchor index store (PutBulk, Get)              *)
(*   UnpublishedSpec : unpublished operation store (Put, Get, Delete)      *)
(*   ClientSpec    : ActivityPub client (classification of failures)       *)
(*   LifecycleFairSpec : LifecycleSpec with fair scheduling of the steps   *)
(*                   in progress                                           *)
(*   AuthSpec      : reads of the outbox, the inbox and single activities  *)
(*   ResourceSpec  : store iterator, HTTP response body and IPFS reader    *)
(*   NextIndexFairSpec, NextIndexWrapSpec : roundRobin.nextIndex, from a   *)
(*                   fresh counter and from a counter near the int32 limit *)
(*   RefIterSpec   : reference iterator of the ActivityPub client          *)
(*   ReverseSpec   : Forward and Reverse activity iterators                *)
(***************************************************************************)
EXTENDS Integers, Naturals, Sequences, FiniteSets, TLC

VARIABLES
    \* ---- lifecycle.Lifecycle ----
    lcState,      \* h.state (uint32)
    lcPc,         \* per caller: position inside Start() / Stop()
    lcCalls,      \* per caller: number of Start/Stop calls issued so far
    startRuns,    \* number of times the start hook h.start() was executed
    stopRuns,     \* number of times the stop hook h.stop() was executed
    nStartCalls,  \* number of Start() calls issued
    nStopCalls,   \* number of Stop() calls issued
    nNoops,       \* number of calls that returned at the failed compare-and-swap
    stopAfterStart \* a Stop() call was issued after a Start() call had been issued

VARIABLES
    \* ---- task manager (permit) and expiry service ----
    now,          \* wall-clock time, in model time units
    permit,       \* the permit record of the task in the coordination store
    tmState,      \* per instance: "notstarted" | "running" | "stopped"
    nextTick,     \* per instance: time of its next task-manager tick
    myLease,      \* per instance: leaseUntil of its last successful acquisition (-1: none)
    inTask,       \* per instance: the task (expiry sweep) is executing
    taskStart,    \* per instance: time at which the executing task began
    handed,       \* per instance: keys handed to the expiry handler by the executing sweep
    store,        \* keys present in the store the expiry service is registered with
    expiryOf,     \* per key: value of its expiry tag
    startedAt,    \* per instance: time of Start (-1: not started)
    stoppedAt,    \* per instance: time of Stop (-1: not stopped)
    errCount,     \* number of handler failures logged
    retryKeys,    \* keys that were handed to a handler call that returned an error
    takeoverDelay \* now - leaseUntil at the last takeover from a stopped holder (-1: none)

VARIABLES
    \* ---- observer, anchor-event handler, message bus ----
    coreIndex,        \* per anchor: the DID suffixes of its core index (PreviousAnchors keys)
    received,         \* anchors the anchor-event handler has been given (Create / Announce)
    anchorTopic,      \* messages queued on the anchor topic
    didTopic,         \* messages queued on the did topic
    nDidMsgs,         \* number of DID messages published so far
    wk,               \* per observer worker: message in hand, position in its handler, result
    processedAnchors, \* processed-anchor index
    didAnchors,       \* DID -> anchor index: per suffix the anchor last written (0: none)
    lastAck,          \* the last message handled: what its handler met, and ack or nack
    faults            \* number of failures the environment may still inject

VARIABLES
    \* ---- CAS resolver ----
    localCAS,     \* the local CAS: per resource hash the content stored (or None)
    rq,           \* the Resolve call in progress: hash, inline data, links
    rpc,          \* position inside Resolve
    tried,        \* the failures of the remote endpoints tried so far, in order
    rres,         \* what Resolve returned: data, local hashlink, error
    nResolves     \* number of Resolve calls so far

rsVars == <<localCAS, rq, rpc, tried, rres, nResolves>>

VARIABLES
    \* ---- ancestor walk of the anchor-event handler ----
    upRefs,       \* the reference graph: per anchor the set of its up references
    wProcessed,   \* the processed-anchor index the walk consults
    wStart,       \* the anchor whose ancestors are looked for
    wStack,       \* the work stack: frames of an anchor and its parents still to visit
    wAcc,         \* the unprocessed ancestors found so far, in the order returned
    wErr,         \* the error of the walk
    wPc,          \* "walking" | "done"
    wSteps        \* number of steps of the walk so far

wkVars == <<upRefs, wProcessed, wStart, wStack, wAcc, wErr, wPc, wSteps>>

VARIABLES
    \* ---- paged ordered collection (REST handler) ----
    pgN,          \* totalItems: number of items of the collection
    pgP,          \* Config.PageSize
    pgOrder,      \* handler.sortOrder
    pgPc,         \* position of the client: "root" | "paging" | "done"
    pgLink,       \* the link the client follows next
    pgFirst,      \* first page number computed by the handler
    pgLast,       \* last page number computed by the handler
    pgVisited,    \* page numbers of the pages returned so far
    pgItems,      \* orderedItems collected from the pages returned so far
    pgReq,        \* the last page request
    pgResp        \* the last page response

VARIABLES
    \* ---- activityIterator (ActivityPub client) ----
    itTotalItems,   \* it.totalItems
    itCurrentLen,   \* len(it.currentItems)
    itCurrentIndex, \* it.currentIndex
    itNumProcessed, \* it.numProcessed
    itNextPage,     \* it.nextPage # nil
    itReturned,     \* number of items Next has returned so far
    itBack,         \* number of positions SetNextIndex has moved backwards so far
    itFetches,      \* number of pages retrieved so far
    itCalls,        \* number of calls made on the iterator so far
    itPageStart,    \* position in the collection of the first item of the current page
    itSeen,         \* positions in the collection of the items Next has returned
    itLast          \* outcome of the last call

itVars == <<itTotalItems, itCurrentLen, itCurrentIndex, itNumProcessed, itNextPage,
           itReturned, itBack, itFetches, itCalls, itPageStart, itSeen, itLast>>

VARIABLES
    \* ---- Observer.postLikeActivity ----
    lkAnchor,     \* the anchor info: Hashlink, LocalHashlink, AttributedTo
    lkPc,         \* position inside processAnchor / postLikeActivity
    lkOrigin,     \* the actor resolved from the anchor credential ("" before)
    lkLikes,      \* the Like activities posted to the outbox, in order
    lkErr,        \* the error postLikeActivity returned
    lkWarned,     \* processAnchor logged the warning
    lkReturn      \* what processAnchor returned ("none" before it returns)

lkVars == <<lkAnchor, lkPc, lkOrigin, lkLikes, lkErr, lkWarned, lkReturn>>

VARIABLES
    \* ---- amqp publisherPool / roundRobin ----
    rrPublishers, \* len(p.publishers)
    rrCurrent,    \* roundRobin.current (int32)
    rrPc,         \* per caller: position inside Publish / nextIndex
    rrI,          \* per caller: the local i of nextIndex
    rrLog,        \* the indexes of the publishers used, in the order of use
    rrOverlap,    \* some Publish call began while another was in progress
    rrCalls       \* number of Publish calls begun

rrVars == <<rrPublishers, rrCurrent, rrPc, rrI, rrLog, rrOverlap, rrCalls>>

VARIABLES
    \* ---- didanchor.Store over its storage back-end ----
    dsIndex,      \* the content of the storage: suffix -> anchor
    dsLast,       \* the last call of the store and what it returned
    dsCalls       \* number of calls made

dsVars == <<dsIndex, dsLast, dsCalls>>

VARIABLES
    \* ---- unpublished operation store ----
    upStore,      \* the entries of the storage: key, value and the two tags
    upLast,       \* the last call of the store and what it returned
    upCalls,      \* number of calls made
    upNow         \* the clock, in seconds, when it was last read

upVars == <<upStore, upLast, upCalls, upNow>>

VARIABLES
    \* ---- ActivityPub client ----
    apActorCache, \* the actor IRIs whose actor is cached
    apLast,       \* the last call of the client, the response and the errors
    apCalls       \* number of calls made

apVars == <<apActorCache, apLast, apCalls>>

VARIABLES
    \* ---- activity store and the REST handlers that read it ----
    auActivities, \* per activity ID: the recipients ("to") of the stored activity, or NotStored
    auOutbox, \* the activity IDs referenced by the outbox
    auPublicOutbox, \* the activity IDs referenced by the public outbox
    auInbox, \* the activity IDs referenced by the inbox
    auLast, \* the last request handled and its response
    auCalls \* number of operations performed

auVars == <<auActivities, auOutbox, auPublicOutbox, auInbox, auLast, auCalls>>

VARIABLES
    \* ---- scoped resources: store iterator, HTTP response body, IPFS reader ----
    rcOpen, \* per kind of resource: how many are open after the operations that acquired them returned
    rcLast, \* the last operation, its outcome and the resource events it made
    rcCalls \* number of operations performed

rcVars == <<rcOpen, rcLast, rcCalls>>

VARIABLES
    \* ---- roundRobin.nextIndex called concurrently ----
    niMax, \* r.max
    niCurrent, \* r.current (int32)
    niPc, \* per caller: position inside nextIndex ("idle": not in a call)
    niI, \* per caller: its local i
    niLast, \* the last index returned and the number of loop iterations the call made
    niIter \* per caller: loop iterations of its call in progress

niVars == <<niMax, niCurrent, niPc, niI, niLast, niIter>>

VARIABLES
    \* ---- reference iterator of the ActivityPub client ----
    riTotalItems, \* it.totalItems
    riCurrentLen, \* len(it.currentItems)
    riCurrentIndex, \* it.currentIndex
    riNextPage, \* it.nextPage # nil
    riCollection, \* number of references the collection holds now
    riServed, \* number of references of the collection handed to the iterator in pages
    riReturned, \* number of references Next has returned
    riLast, \* outcome of the last call
    riCalls \* number of calls made

riVars == <<riTotalItems, riCurrentLen, riCurrentIndex, riNextPage, riCollection, riServed, riReturned, riLast, riCalls>>

VARIABLES
    \* ---- Forward and Reverse activity iterators over one collection ----
    rvIri, \* the IRI both iterators were asked for: the collection or one of its pages
    rvIt, \* Order -> the activityIterator GetActivities returned, or NoIterator
    rvYield, \* Order -> the activities Next has returned so far
    rvDone \* Order -> Next has returned ErrNotFound

rvVars == <<rvIri, rvIt, rvYield, rvDone>>

pgVars == <<pgN, pgP, pgOrder, pgPc, pgLink, pgFirst, pgLast, pgVisited, pgItems,
           pgReq, pgResp>>

obVars == <<coreIndex, received, anchorTopic, didTopic, nDidMsgs, wk, processedAnchors,
            didAnchors, lastAck, faults>>

lcVars == <<lcState, lcPc, lcCalls, startRuns, stopRuns, nStartCalls, nStopCalls, nNoops,
            stopAfterStart>>

tmVars == <<now, permit, tmState, nextTick, myLease, inTask, taskStart, handed, store,
            expiryOf, startedAt, stoppedAt, errCount, retryKeys, takeoverDelay>>

vars == <<lcVars, tmVars, obVars, rsVars, wkVars, pgVars, itVars, lkVars, rrVars, dsVars,
         upVars, apVars,
         auVars,
         rcVars,
         niVars,
         riVars,
         rvVars>>

\* What each sub-system leaves unchanged: the variables of the others.
lcOthers == <<tmVars, obVars, rsVars, wkVars, pgVars, itVars, lkVars, rrVars,
             dsVars, upVars, apVars,
             auVars,
             rcVars,
             niVars,
             riVars,
             rvVars>>
tmOthers == <<lcVars, obVars, rsVars, wkVars, pgVars, itVars, lkVars, rrVars,
             dsVars, upVars, apVars,
             auVars,
             rcVars,
             niVars,
             riVars,
             rvVars>>
obOthers == <<lcVars, tmVars, rsVars, wkVars, pgVars, itVars, lkVars, rrVars,
             dsVars, upVars, apVars,
             auVars,
             rcVars,
             niVars,
             riVars,
             rvVars>>
rsOthers == <<lcVars, tmVars, obVars, wkVars, pgVars, itVars, lkVars, rrVars,
             dsVars, upVars, apVars,
             auVars,
             rcVars,
             niVars,
             riVars,
             rvVars>>
wkOthers == <<lcVars, tmVars, obVars, rsVars, pgVars, itVars, lkVars, rrVars,
             dsVars, upVars, apVars,
             auVars,
             rcVars,
             niVars,
             riVars,
             rvVars>>
pgOthers == <<lcVars, tmVars, obVars, rsVars, wkVars, itVars, lkVars, rrVars,
             dsVars, upVars, apVars,
             auVars,
             rcVars,
             niVars,
             riVars,
             rvVars>>
itOthers == <<lcVars, tmVars, obVars, rsVars, wkVars, pgVars, lkVars, rrVars,
             dsVars, upVars, apVars,
             auVars,
             rcVars,
             niVars,
             riVars,
             rvVars>>
lkOthers == <<lcVars, tmVars, obVars, rsVars, wkVars, pgVars, itVars, rrVars,
             dsVars, upVars, apVars,
             auVars,
             rcVars,
             niVars,
             riVars,
             rvVars>>
rrOthers == <<lcVars, tmVars, obVars, rsVars, wkVars, pgVars, itVars, lkVars,
             dsVars, upVars, apVars,
             auVars,
             rcVars,
             niVars,
             riVars,
             rvVars>>
dsOthers == <<lcVars, tmVars, obVars, rsVars, wkVars, pgVars, itVars, lkVars,
             rrVars, upVars, apVars,
             auVars,
             rcVars,
             niVars,
             riVars,
             rvVars>>
upOthers == <<lcVars, tmVars, obVars, rsVars, wkVars, pgVars, itVars, lkVars,
             rrVars, dsVars, apVars,
             auVars,
             rcVars,
             niVars,
             riVars,
             rvVars>>
apOthers == <<lcVars, tmVars, obVars, rsVars, wkVars, pgVars, itVars, lkVars,
             rrVars, dsVars, upVars,
             auVars,
             rcVars,
             niVars,
             riVars,
             rvVars>>
auOthers == <<lcVars,
             tmVars,
             obVars,
             rsVars,
             wkVars,
             pgVars,
             itVars,
             lkVars,
             rrVars,
             dsVars,
             upVars,
             apVars,
             rcVars,
             niVars,
             riVars,
             rvVars>>
rcOthers == <<lcVars,
             tmVars,
             obVars,
             rsVars,
             wkVars,
             pgVars,
             itVars,
             lkVars,
             rrVars,
             dsVars,
             upVars,
             apVars,
             auVars,
             niVars,
             riVars,
             rvVars>>
niOthers == <<lcVars,
             tmVars,
             obVars,
             rsVars,
             wkVars,
             pgVars,
             itVars,
             lkVars,
             rrVars,
             dsVars,
             upVars,
             apVars,
             auVars,
             rcVars,
             riVars,
             rvVars>>
riOthers == <<lcVars,
             tmVars,
             obVars,
             rsVars,
             wkVars,
             pgVars,
             itVars,
             lkVars,
             rrVars,
             dsVars,
             upVars,
             apVars,
             auVars,
             rcVars,
             niVars,
             rvVars>>
rvOthers == <<lcVars,
             tmVars,
             obVars,
             rsVars,
             wkVars,
             pgVars,
             itVars,
             lkVars,
             rrVars,
             dsVars,
             upVars,
             apVars,
             auVars,
             rcVars,
             niVars,
             riVars>>

-----------------------------------------------------------------------------
(***************************************************************************)
(* lifecycle.Lifecycle                                                     *)
(***************************************************************************)

StateNotStarted == 0
StateStarting == 1
StateStarted == 2
StateStopped == 3

\* Number of goroutines calling Start / Stop concurrently.
NumCallers == 3
\* Number of calls each goroutine issues.
MaxCalls == 2

Callers == 1..NumCallers

\* atomic.CompareAndSwapUint32(&h.state, old, new): <<value after, swapped>>.
CompareAndSwap(cur, old, new) == IF cur = old THEN <<new, TRUE>> ELSE <<cur, FALSE>>

\* Mutant of StartSwap: the state is set to Starting without comparing.
StartSwapNoCompare(s) == <<StateStarting, TRUE>>

\* Start(): atomic.CompareAndSwapUint32(&h.state, StateNotStarted, StateStarting).
StartSwap(s) == CompareAndSwap(s, StateNotStarted, StateStarting)

\* Mutant of StopSwap: Stop swaps the state from Starting.
StopSwapFromStarting(s) == CompareAndSwap(s, StateStarting, StateStopped)

\* Mutant of StopSwap: the state is set to Stopped without comparing.
StopSwapNoCompare(s) == <<StateStopped, TRUE>>

\* Stop(): atomic.CompareAndSwapUint32(&h.state, StateStarted, StateStopped).
StopSwap(s) == CompareAndSwap(s, StateStarted, StateStopped)

LcInit ==
    /\ lcState = StateNotStarted
    /\ lcPc = [c \in Callers |-> "idle"]
    /\ lcCalls = [c \in Callers |-> 0]
    /\ startRuns = 0
    /\ stopRuns = 0
    /\ nStartCalls = 0
    /\ nStopCalls = 0
    /\ nNoops = 0
    /\ stopAfterStart = FALSE

\* Start(), first step: the compare-and-swap; on failure the call returns.
StartCAS(c) ==
    /\ lcPc[c] = "idle"
    /\ lcCalls[c] < MaxCalls
    /\ lcCalls' = [lcCalls EXCEPT ![c] = @ + 1]
    /\ nStartCalls' = nStartCalls + 1
    /\ lcState' = StartSwap(lcState)[1]
    /\ IF StartSwap(lcState)[2]
         THEN /\ lcPc' = [lcPc EXCEPT ![c] = "start_hook"]
              /\ nNoops' = nNoops
         ELSE /\ lcPc' = lcPc
              /\ nNoops' = nNoops + 1
    /\ UNCHANGED <<startRuns, stopRuns, nStopCalls, stopAfterStart>>
    /\ UNCHANGED lcOthers

\* Start(), second step: h.start().
StartHook(c) ==
    /\ lcPc[c] = "start_hook"
    /\ startRuns' = startRuns + 1
    /\ lcPc' = [lcPc EXCEPT ![c] = "start_store"]
    /\ UNCHANGED <<lcState, lcCalls, stopRuns, nStartCalls, nStopCalls, nNoops, stopAfterStart>>
    /\ UNCHANGED lcOthers

\* Start(), last step: atomic.StoreUint32(&h.state, StateStarted).
StartStore(c) ==
    /\ lcPc[c] = "start_store"
    /\ lcState' = StateStarted
    /\ lcPc' = [lcPc EXCEPT ![c] = "idle"]
    /\ UNCHANGED <<lcCalls, startRuns, stopRuns, nStartCalls, nStopCalls, nNoops, stopAfterStart>>
    /\ UNCHANGED lcOthers

\* Stop(), first step: the compare-and-swap; on failure the call returns.
StopCAS(c) ==
    /\ lcPc[c] = "idle"
    /\ lcCalls[c] < MaxCalls
    /\ lcCalls' = [lcCalls EXCEPT ![c] = @ + 1]
    /\ nStopCalls' = nStopCalls + 1
    /\ lcState' = StopSwap(lcState)[1]
    /\ IF StopSwap(lcState)[2]
         THEN /\ lcPc' = [lcPc EXCEPT ![c] = "stop_hook"]
              /\ nNoops' = nNoops
         ELSE /\ lcPc' = lcPc
              /\ nNoops' = nNoops + 1
    /\ stopAfterStart' = (stopAfterStart \/ nStartCalls >= 1)
    /\ UNCHANGED <<startRuns, stopRuns, nStartCalls>>
    /\ UNCHANGED lcOthers

\* Stop(), second step: h.stop().
StopHook(c) ==
    /\ lcPc[c] = "stop_hook"
    /\ stopRuns' = stopRuns + 1
    /\ lcPc' = [lcPc EXCEPT ![c] = "idle"]
    /\ UNCHANGED <<lcState, lcCalls, startRuns, nStartCalls, nStopCalls, nNoops, stopAfterStart>>
    /\ UNCHANGED lcOthers

LcNext ==
    \E c \in Callers :
        \/ StartCAS(c)
        \/ StartHook(c)
        \/ StartStore(c)
        \/ StopCAS(c)
        \/ StopHook(c)

\* The steps of the chain NotStarted -> Starting -> Started -> Stopped.
LcChain == {<<StateNotStarted, StateStarting>>,
            <<StateStarting, StateStarted>>,
            <<StateStarted, StateStopped>>}

\* A step in which a call returned at its failed compare-and-swap.
LcNoopStep == nNoops' = nNoops + 1

\* C3: under any interleaving of concurrent Start and Stop calls the state
\* changes only along NotStarted -> Starting -> Started -> Stopped (no skip,
\* no step backwards, no step out of Stopped), and a call that does not match
\* the next step changes neither the state nor runs a hook.
C3_StrictFSM ==
    [][ /\ (lcState' # lcState => <<lcState, lcState'>> \in LcChain)
        /\ (LcNoopStep => /\ lcState' = lcState
                          /\ lcPc' = lcPc
                          /\ startRuns' = startRuns
                          /\ stopRuns' = stopRuns) ]_vars

\* C3 witness: the whole chain was walked while concurrent callers issued
\* Start and Stop calls, some of which did not match the next step.
C3_Witness ==
    /\ lcState = StateStopped
    /\ nNoops >= 2
    /\ nStartCalls >= 2
    /\ nStopCalls >= 2

\* C4: for any number of concurrent Start and Stop callers the start hook is
\* executed at most once and the stop hook at most once.
C4_HooksAtMostOnce == startRuns <= 1 /\ stopRuns <= 1

\* C4 witness: both hooks ran although several callers raced on Start and on Stop.
C4_Witness ==
    /\ startRuns = 1
    /\ stopRuns = 1
    /\ nStartCalls >= 2
    /\ nStopCalls >= 2

\* The hooks return and the store that follows the start hook is executed;
\* whether and when Start and Stop are called is up to the callers.
LcFairness ==
    \A c \in Callers :
        WF_vars(StartHook(c)) /\ WF_vars(StartStore(c)) /\ WF_vars(StopHook(c))

\* C33: if Stop is called on a Lifecycle after Start has been called,
\* including while the start hook is still running, the Lifecycle eventually
\* reaches Stopped and the stop hook runs.
C33_StopNeverLost ==
    stopAfterStart ~> (lcState = StateStopped /\ stopRuns >= 1)

\* What holds: once a Stop call has swapped the state to Stopped the stop
\* hook eventually runs, and a Stop call that finds the Lifecycle in any
\* state but Started, Starting included, returns without effect.
C33_StopOnlyWhenStarted ==
    /\ (lcState = StateStopped) ~> (stopRuns = 1)
    /\ [][nStopCalls' = nStopCalls + 1 =>
            IF lcState = StateStarted
              THEN lcState' = StateStopped
              ELSE lcState' = lcState /\ LcNoopStep]_vars

\* A Stop call issued while the start hook was running was lost: every call
\* has returned and the Lifecycle is Started.
C33_Witness ==
    /\ stopAfterStart
    /\ lcState = StateStarted
    /\ stopRuns = 0
    /\ \A c \in Callers : lcPc[c] = "idle" /\ lcCalls[c] = MaxCalls

\* C34: the stop hook of a Lifecycle never runs before or concurrently with
\* its start hook: it begins only after the start hook has returned.
C34_StopHookAfterStartHook ==
    /\ stopRuns >= 1 => startRuns >= 1
    /\ \A c \in Callers : lcPc[c] = "stop_hook" =>
          /\ startRuns >= 1
          /\ \A d \in Callers : lcPc[d] # "start_hook"

\* C34 witness: the stop hook is about to run after Stop calls were issued
\* while the start hook had not returned.
C34_Witness ==
    /\ \E c \in Callers : lcPc[c] = "stop_hook"
    /\ startRuns = 1
    /\ nStopCalls >= 2
    /\ nNoops >= 1

-----------------------------------------------------------------------------

(***************************************************************************)
(* Task manager permit and expiry service                                  *)
(***************************************************************************)

\* Number of instances in the cluster sharing the coordination store.
NumInstances == 2
\* The task-manager interval (and sweep period), in model time units.
Interval == 2
\* Time is explored up to MaxTime.
MaxTime == 7

Instances == 1..NumInstances
NoOwner == 0

\* Longest duration of one handler call; shorter than the interval.
HandlerDur == Interval - 1

\* Lifetime of a lease: the holder refreshes it each interval.
LeaseTime == Interval

Keys == {"Key1", "Key2"}

\* Expiry tag values the stored test data may carry; the last one lies
\* beyond the explored time ("far in the future").
ExpiryTimes == {1, 3, MaxTime + 1}

\* Mutant of LeaseExpired: the permit is taken away only an extra interval
\* after the lease ran out.
LeaseExpiredLate(p, t) == p.leaseUntil + Interval < t

\* permit.leaseUntil < now
LeaseExpired(p, t) == p.leaseUntil < t

\* Mutant of AcquireOk: the lease of another holder is ignored.
AcquireOkIgnoreLease(p, i, t) == TRUE

\* Guard of the single-key compare-and-swap on the permit:
\* owner == null || leaseUntil < now (or the holder refreshing its own lease).
AcquireOk(p, i, t) == p.owner = NoOwner \/ p.owner = i \/ LeaseExpired(p, t)

\* Mutant of ExpiredKeys: keys expiring within the next interval are swept too.
ExpiredKeysEarly(st, t) == {k \in st : expiryOf[k] <= t + Interval}

\* Mutant of ExpiredKeys: keys whose handler call failed are not queried again.
ExpiredKeysSkipFailed(st, t) == {k \in st : expiryOf[k] <= t /\ k \notin retryKeys}

\* Query of the store for keys whose expiry tag is <= now.
ExpiredKeys(st, t) == {k \in st : expiryOf[k] <= t}

\* Mutant of HandleExpiredKeys: the handler reports success but deletes nothing.
HandleExpiredKeysNoDelete(st, keys) == st

\* The default handler: delete the keys it is handed.
HandleExpiredKeys(st, keys) == st \ keys

\* The instance believes it holds the permit: its own lease has not run out.
Holds(i) == tmState[i] = "running" /\ myLease[i] >= now

\* The holder of the permit has stopped while instance j, running since before
\* that stop, stands by.
StandbyFor(j) ==
    /\ permit.owner # NoOwner
    /\ permit.owner # j
    /\ tmState[permit.owner] = "stopped"
    /\ tmState[j] = "running"
    /\ startedAt[j] <= stoppedAt[permit.owner]

TmInit ==
    /\ now = 0
    /\ permit = [owner |-> NoOwner, leaseUntil |-> 0]
    /\ tmState = [i \in Instances |-> "notstarted"]
    /\ nextTick = [i \in Instances |-> 0]
    /\ myLease = [i \in Instances |-> -1]
    /\ inTask = [i \in Instances |-> FALSE]
    /\ taskStart = [i \in Instances |-> 0]
    /\ handed = [i \in Instances |-> {}]
    /\ store = Keys
    /\ expiryOf \in [Keys -> ExpiryTimes]
    /\ startedAt = [i \in Instances |-> -1]
    /\ stoppedAt = [i \in Instances |-> -1]
    /\ errCount = 0
    /\ retryKeys = {}
    /\ takeoverDelay = -1

\* taskMgr.Start(): the first tick comes one interval later.
TmStart(i) ==
    /\ tmState[i] = "notstarted"
    /\ tmState' = [tmState EXCEPT ![i] = "running"]
    /\ nextTick' = [nextTick EXCEPT ![i] = now + Interval]
    /\ startedAt' = [startedAt EXCEPT ![i] = now]
    /\ UNCHANGED <<now, permit, myLease, inTask, taskStart, handed, store, expiryOf,
                   stoppedAt, errCount, retryKeys, takeoverDelay>>
    /\ UNCHANGED tmOthers

\* taskMgr.Stop(), "simulating a server failure": the permit record is left
\* as it is and a sweep in progress is abandoned.
TmStop(i) ==
    /\ tmState[i] = "running"
    /\ tmState' = [tmState EXCEPT ![i] = "stopped"]
    /\ inTask' = [inTask EXCEPT ![i] = FALSE]
    /\ stoppedAt' = [stoppedAt EXCEPT ![i] = now]
    /\ UNCHANGED <<now, permit, nextTick, myLease, taskStart, handed, store, expiryOf,
                   startedAt, errCount, retryKeys, takeoverDelay>>
    /\ UNCHANGED tmOthers

\* One task-manager tick of instance i: the compare-and-swap on the permit
\* and, when it succeeds, the start of the task (the expiry sweep: query the
\* expired keys and hand them to the handler).
TmTick(i) ==
    /\ tmState[i] = "running"
    /\ nextTick[i] = now
    /\ ~inTask[i]
    /\ nextTick' = [nextTick EXCEPT ![i] = now + Interval]
    /\ IF AcquireOk(permit, i, now)
         THEN /\ permit' = [owner |-> i, leaseUntil |-> now + LeaseTime]
              /\ myLease' = [myLease EXCEPT ![i] = now + LeaseTime]
              /\ inTask' = [inTask EXCEPT ![i] = TRUE]
              /\ taskStart' = [taskStart EXCEPT ![i] = now]
              /\ handed' = [handed EXCEPT ![i] = ExpiredKeys(store, now)]
              /\ takeoverDelay' =
                    IF StandbyFor(i)
                      THEN now - permit.leaseUntil
                      ELSE takeoverDelay
         ELSE UNCHANGED <<permit, myLease, inTask, taskStart, handed, takeoverDelay>>
    /\ UNCHANGED <<now, tmState, store, expiryOf, startedAt, stoppedAt, errCount, retryKeys>>
    /\ UNCHANGED tmOthers

\* The handler call of the sweep returns without error (no call is made
\* when no key is expired).
TmFinishOk(i) ==
    /\ inTask[i]
    /\ store' = HandleExpiredKeys(store, handed[i])
    /\ inTask' = [inTask EXCEPT ![i] = FALSE]
    /\ UNCHANGED <<now, permit, tmState, nextTick, myLease, taskStart, handed, expiryOf,
                   startedAt, stoppedAt, errCount, retryKeys, takeoverDelay>>
    /\ UNCHANGED tmOthers

\* The handler call of the sweep returns an error: it is logged, nothing else.
TmFinishErr(i) ==
    /\ inTask[i]
    /\ handed[i] # {}
    /\ errCount' = errCount + 1
    /\ retryKeys' = retryKeys \cup handed[i]
    /\ inTask' = [inTask EXCEPT ![i] = FALSE]
    /\ UNCHANGED <<now, permit, tmState, nextTick, myLease, taskStart, handed, store,
                   expiryOf, startedAt, stoppedAt, takeoverDelay>>
    /\ UNCHANGED tmOthers

\* Time passes: no tick of a running instance is due and no handler call
\* has used up its duration.
TmAdvance ==
    /\ now < MaxTime
    /\ \A i \in Instances : tmState[i] = "running" => nextTick[i] > now
    /\ \A i \in Instances : inTask[i] => taskStart[i] + HandlerDur > now
    /\ now' = now + 1
    /\ UNCHANGED <<permit, tmState, nextTick, myLease, inTask, taskStart, handed, store,
                   expiryOf, startedAt, stoppedAt, errCount, retryKeys, takeoverDelay>>
    /\ UNCHANGED tmOthers

TmNext ==
    \/ \E i \in Instances :
        \/ TmStart(i)
        \/ TmStop(i)
        \/ TmTick(i)
        \/ TmFinishOk(i)
        \/ TmFinishErr(i)
    \/ TmAdvance

\* C1: at any instant at most one instance holds the permit of the task, and
\* the task's periodic work is never run by two instances at the same time
\* (the task runs only in an instance that holds the permit).
C1_PermitMutex ==
    \A i, j \in Instances :
        /\ (i # j => ~(Holds(i) /\ Holds(j)))
        /\ (i # j => ~(inTask[i] /\ inTask[j]))
        /\ (inTask[i] => Holds(i))

\* C1 witness: an instance runs the task under a permit it took over from
\* another instance that held it before, while both are running or stopped.
C1_Witness ==
    \E i, j \in Instances :
        /\ i # j
        /\ inTask[j]
        /\ permit.owner = j
        /\ myLease[i] >= 0

RunningSince(t) == \E i \in Instances : tmState[i] = "running" /\ startedAt[i] <= t

\* The bound of the expiry claim has passed for key k.
Overdue(k) == now > expiryOf[k] + Interval + HandlerDur

C9_UnexpiredKeyKept ==
    /\ \A k \in Keys : expiryOf[k] > now => k \in store
    /\ \A i \in Instances : inTask[i] => \A k \in handed[i] : expiryOf[k] <= now

\* C9 witness: sweeps have deleted an expired key while a key that has not
\* expired yet is still readable.
C9_Witness ==
    \E k1, k2 \in Keys :
        /\ k1 \notin store
        /\ k2 \in store
        /\ expiryOf[k2] > now
        /\ expiryOf[k2] <= MaxTime

\* C10: when the handler returns an error the failure is only logged (the
\* store and the instances are left as they are and the ticks stay scheduled),
\* and every sweep hands over again every key of a failed call that is still
\* in the store.
C10_RetryAfterHandlerError ==
    [][ /\ (errCount' # errCount =>
              /\ store' = store
              /\ tmState' = tmState
              /\ permit' = permit
              /\ \A i \in Instances : tmState[i] = "running" => nextTick'[i] >= now)
        /\ \A i \in Instances :
              (~inTask[i] /\ inTask'[i]) => (retryKeys \cap store) \subseteq handed'[i]
      ]_vars

\* C10 witness: after a logged handler error a later sweep has handed the
\* surviving keys to the handler again.
C10_Witness ==
    \E i \in Instances :
        /\ errCount >= 1
        /\ inTask[i]
        /\ handed[i] \cap retryKeys # {}

(***************************************************************************)
(* Observer: anchor and DID topics, processAnchor, ack / nack              *)
(***************************************************************************)

\* Number of anchors in the anchor graph.
NumAnchors == 2
\* Size of the observer's worker pool.
NumWorkers == 2
\* Number of failures the environment may inject.
MaxFaults == 1
\* Number of DID messages published.
MaxDidMsgs == 1

Anchors == 1..NumAnchors
Workers == 1..NumWorkers
Suffixes == {"s1", "s2"}
NoAnchor == 0

\* ---- errors: a chain of wrappers, outermost first; <<>> is nil ----
Nil == <<>>
\* errors.New(...)
PlainError == <<"error">>
\* orberrors.NewTransient(err)
NewTransient(err) == <<"transient">> \o err
\* The failures a dependency (anchor graph, protocol client, index store,
\* outbox) may return.
Failures == {NewTransient(PlainError), PlainError}

\* orberrors.IsTransient(err): some layer of the chain is a transient error.
IsTransient(err) == \E n \in 1..Len(err) : err[n] = "transient"

IsPermanent(err) == err # Nil /\ ~IsTransient(err)

\* Mutant of Wrap: the wrapper marks every failure as transient.
WrapAsTransient(err) == NewTransient(<<"context">> \o err)

\* fmt.Errorf("...: %w", err)
Wrap(err) == <<"context">> \o err

\* ---- anchors ----
\* The previous anchor of suffix s as recorded in anchor a (PreviousAnchors[s]):
\* the latest earlier anchor that lists s, NoAnchor when there is none.
PrevAnchor(a, s) ==
    LET earlier == {b \in Anchors : b < a /\ s \in coreIndex[b]}
    IN IF earlier = {} THEN NoAnchor
       ELSE CHOOSE b \in earlier : \A c \in earlier : c <= b

\* The up references of anchor a: the previous anchors of the DIDs it touches.
Up(a) == {PrevAnchor(a, s) : s \in coreIndex[a]} \ {NoAnchor}

\* A set of anchors as a sequence, in the order of the linkset.
RECURSIVE SeqOf(_)
SeqOf(S) ==
    IF S = {} THEN <<>>
    ELSE LET m == CHOOSE x \in S : \A y \in S : x <= y
         IN <<m>> \o SeqOf(S \ {m})

InSeq(x, q) == \E n \in 1..Len(q) : q[n] = x

\* The ancestor walk: the unprocessed ancestors of the anchors ps, deepest
\* first, without duplicates; acc holds the ancestors found so far.
RECURSIVE VisitParents(_, _, _)
VisitParents(ps, acc, done) ==
    IF ps = <<>> THEN acc
    ELSE LET p == Head(ps)
         IN IF p \in done \/ InSeq(p, acc)
              THEN VisitParents(Tail(ps), acc, done)
              ELSE VisitParents(Tail(ps),
                                Append(VisitParents(SeqOf(Up(p)), acc, done), p),
                                done)

\* getUnprocessedParentAnchors(hl, anchorLink)
GetUnprocessedParentAnchors(a, done) == VisitParents(SeqOf(Up(a)), <<>>, done)

\* ---- messages ----
\* The content hash of each anchor.
HashNames == <<"h1", "h2", "h3", "h4", "h5">>

\* A hashlink "hl:<hash>" as a sequence of tokens.
Hashlink(a) == <<"hl", ":", HashNames[a]>>

\* A message on the anchor topic (anchorinfo.AnchorInfo).
AnchorMsg(a, attr) == [kind |-> "anchor", hl |-> a, attributedTo |-> attr, did |-> <<>>]

\* A message on the did topic: "<hashlink>:<suffix>".
DidMsg(d) == [kind |-> "did", hl |-> NoAnchor, attributedTo |-> FALSE, did |-> d]

\* The DID messages published: the latest anchor with each suffix, a DID
\* without a hashlink, a DID whose hashlink the graph does not hold.
DidStrings ==
    {Hashlink(NumAnchors) \o <<":", s>> : s \in Suffixes}
        \cup {<<"no-cid">>, <<"cid", ":", "s1">>}

\* strings.LastIndex(did, ":"), 0 when there is none.
LastIndex(did) ==
    LET at == {n \in 1..Len(did) : did[n] = ":"}
    IN IF at = {} THEN 0 ELSE CHOOSE n \in at : \A m \in at : m <= n

\* getDidParts(did): <<cid, suffix, err>>.
GetDidParts(did) ==
    LET pos == LastIndex(did)
    IN IF pos = 0 THEN <<<<>>, <<>>, PlainError>>
       ELSE <<SubSeq(did, 1, pos - 1), SubSeq(did, pos + 1, Len(did)), Nil>>

\* The anchor a hashlink names, NoAnchor when the graph does not hold it.
AnchorOf(cid) ==
    IF \E a \in Anchors : Hashlink(a) = cid
      THEN CHOOSE a \in Anchors : Hashlink(a) = cid
      ELSE NoAnchor

\* AnchorGraph.GetDidAnchors(cid, suffix): the anchors of the suffix, walking
\* the previous-anchor references back from cid, oldest first.
RECURSIVE DidChain(_, _)
DidChain(a, s) ==
    IF a = NoAnchor THEN <<>>
    ELSE Append(DidChain(IF s \in coreIndex[a] THEN PrevAnchor(a, s) ELSE NoAnchor, s), a)

\* ---- DID -> anchor index store ----
\* storage.ErrDuplicateKey
ErrDuplicateKey == <<"duplicate key">>

\* The IsNewKey hint of suffix s in the batch of anchor a: the anchor records
\* no previous anchor for the suffix.
IsNewKey(a, s) == PrevAnchor(a, s) = NoAnchor

\* storage.Store.Batch(operations), every operation putting cid under a key
\* of keys, those of newKeys with the IsNewKey hint: <<index, err>>. The batch
\* is applied as a whole or not at all; it is rejected when a key hinted as
\* new exists.
Batch(idx, keys, newKeys, cid, fail) ==
    IF fail # Nil THEN <<idx, fail>>
    ELSE IF \E k \in newKeys : idx[k] # NoAnchor THEN <<idx, ErrDuplicateKey>>
    ELSE <<[k \in DOMAIN idx |-> IF k \in keys THEN cid ELSE idx[k]], Nil>>

\* errors.Is(err, target): target is err or one of the errors err wraps.
ErrorsIs(err, target) ==
    \E n \in 1..Len(err) : SubSeq(err, n, Len(err)) = target

\* One call of storage.Store.Batch: the keys, the keys hinted as new, the value.
BatchCall(keys, newKeys, cid) == [keys |-> keys, newKeys |-> newKeys, cid |-> cid]

\* Mutant of StorePutBulk: a rejected first batch is not retried.
StorePutBulkNoRetry(idx, keys, newKeys, cid, e1, e2) ==
    LET first == Batch(idx, keys, newKeys, cid, e1)
    IN IF first[2] = Nil \/ first[2] = ErrDuplicateKey
         THEN <<first[1], Nil, <<BatchCall(keys, newKeys, cid)>>>>
         ELSE <<first[1], NewTransient(Wrap(first[2])), <<BatchCall(keys, newKeys, cid)>>>>

\* Mutant of StorePutBulk: every failure of the first batch is retried.
StorePutBulkRetriesAnyFailure(idx, keys, newKeys, cid, e1, e2) ==
    LET first == Batch(idx, keys, newKeys, cid, e1)
        second == Batch(first[1], keys, {}, cid, e2)
    IN IF first[2] = Nil THEN <<first[1], Nil, <<BatchCall(keys, newKeys, cid)>>>>
       ELSE <<second[1],
              IF second[2] # Nil THEN NewTransient(Wrap(second[2])) ELSE Nil,
              <<BatchCall(keys, newKeys, cid), BatchCall(keys, {}, cid)>>>>

\* Store.PutBulk(suffixes, areNew, cid): <<index, err, batches>>; e1 and e2
\* are the failures of the storage at the first and at the second batch, and
\* batches are the calls of Batch that were made.
StorePutBulk(idx, keys, newKeys, cid, e1, e2) ==
    IF keys = {} THEN <<idx, PlainError, <<>>>>
    ELSE LET first == Batch(idx, keys, newKeys, cid, e1)
             call1 == BatchCall(keys, newKeys, cid)
             call2 == BatchCall(keys, {}, cid)
         IN IF first[2] = Nil THEN <<first[1], Nil, <<call1>>>>
            ELSE IF ErrorsIs(first[2], ErrDuplicateKey)
              THEN LET second == Batch(first[1], keys, {}, cid, e2)
                   IN IF second[2] # Nil
                        THEN <<second[1], NewTransient(Wrap(second[2])), <<call1, call2>>>>
                        ELSE <<second[1], Nil, <<call1, call2>>>>
              ELSE <<first[1], NewTransient(Wrap(first[2])), <<call1>>>>

StorageErrDataNotFound == <<"storage: data not found">>
ErrDataNotFound == <<"data not found">>

\* storage.Store.Get(key): <<value, err>>; an absent key is reported with the
\* not-found error of the storage.
StorageGet(idx, key, fail) ==
    IF fail # Nil THEN <<NoAnchor, fail>>
    ELSE IF idx[key] = NoAnchor THEN <<NoAnchor, StorageErrDataNotFound>>
    ELSE <<idx[key], Nil>>

StoreGetAlwaysTransient(idx, key, fail) ==
    LET got == StorageGet(idx, key, fail)
    IN IF got[2] # Nil THEN <<NoAnchor, NewTransient(Wrap(got[2]))>> ELSE got

\* Store.Get(suffix): <<anchor, err>>
StoreGet(idx, key, fail) ==
    LET got == StorageGet(idx, key, fail)
    IN IF got[2] # Nil
         THEN IF ErrorsIs(got[2], StorageErrDataNotFound)
                THEN <<NoAnchor, ErrDataNotFound>>
                ELSE <<NoAnchor, NewTransient(Wrap(got[2]))>>
         ELSE got

\* ---- workers ----
IdleWorker ==
    [pc |-> "idle", msg |-> AnchorMsg(NoAnchor, FALSE), cur |-> NoAnchor, suffix |-> "",
     todo |-> <<>>, err |-> Nil, sawT |-> FALSE, sawP |-> FALSE, likeT |-> FALSE,
     retried |-> FALSE]

NoAck ==
    [kind |-> "none", sawT |-> FALSE, sawP |-> FALSE, likeT |-> FALSE, outcome |-> "none",
     redelivered |-> FALSE]

\* The record of a worker after a dependency returned e: what was raised.
Raised(r, e) == [r EXCEPT !.sawT = @ \/ IsTransient(e), !.sawP = @ \/ IsPermanent(e)]

\* Mutant of DidLoopAborts: no failure of processAnchor ends the DID loop.
DidLoopNeverAborts(err) == FALSE

\* processDID: a transient failure of processAnchor is returned, so that the
\* message is redelivered; any other failure is ignored.
DidLoopAborts(err) == IsTransient(err)

\* processDID's loop: continue with the next anchor of the DID, or return nil.
NextDidAnchor(r) ==
    IF r.todo = <<>>
      THEN [r EXCEPT !.pc = "ack", !.err = Nil]
      ELSE [r EXCEPT !.pc = "process", !.cur = Head(r.todo), !.todo = Tail(r.todo),
                     !.retried = FALSE]

LikeOutcomeReturned(e) == IF e = Nil THEN Nil ELSE Wrap(e)

\* processAnchor: what it returns after postLikeActivity returned e: "This is
\* not a critical error": e is logged and nil is returned.
LikeOutcome(e) == Nil

\* processAnchor has returned err to its caller, handleAnchor or processDID.
AfterProcessAnchor(r, err) ==
    IF r.msg.kind = "anchor"
      THEN [r EXCEPT !.pc = "ack", !.err = err]
      ELSE IF err # Nil /\ DidLoopAborts(err)
             THEN [r EXCEPT !.pc = "ack", !.err = Wrap(err)]
             ELSE NextDidAnchor(r)

\* The acknowledgement of a handled message: nil -> ack; transient -> nack,
\* so that the message is redelivered; any other error -> logged and ack.
AckDecision(err) == IF err # Nil /\ IsTransient(err) THEN "nack" ELSE "ack"

CanFail(e) == e = Nil \/ faults > 0
Spend(e) == IF e = Nil THEN faults ELSE faults - 1

ObInit ==
    /\ coreIndex \in [Anchors -> (SUBSET Suffixes) \ {{}}]
    /\ received = {}
    /\ anchorTopic = <<>>
    /\ didTopic = <<>>
    /\ nDidMsgs = 0
    /\ wk = [w \in Workers |-> IdleWorker]
    /\ processedAnchors = {}
    /\ didAnchors = [s \in Suffixes |-> NoAnchor]
    /\ lastAck = NoAck
    /\ faults = MaxFaults

\* The handler of worker w has come to record r, the topics being at and dt.
\* When it has returned (pc "ack") the message is acknowledged, or negatively
\* acknowledged and redelivered by the bus, and the worker is free again.
Settle(w, r, at, dt) ==
    IF r.pc = "ack"
      THEN LET d == AckDecision(r.err)
           IN /\ wk' = [wk EXCEPT ![w] = IdleWorker]
              /\ anchorTopic' = IF d = "nack" /\ r.msg.kind = "anchor"
                                  THEN Append(at, r.msg) ELSE at
              /\ didTopic' = IF d = "nack" /\ r.msg.kind = "did"
                               THEN Append(dt, r.msg) ELSE dt
              /\ lastAck' = [kind |-> r.msg.kind, sawT |-> r.sawT, sawP |-> r.sawP,
                             likeT |-> r.likeT, outcome |-> d,
                             redelivered |-> (anchorTopic' # at \/ didTopic' # dt)]
      ELSE /\ wk' = [wk EXCEPT ![w] = r]
           /\ anchorTopic' = at
           /\ didTopic' = dt
           /\ UNCHANGED lastAck

\* HandleAnchorEvent: the anchor-event handler is given anchor a; it publishes
\* the unprocessed ancestors of a, deepest first, and then a itself.
ReceiveAnchor(a) ==
    /\ a \notin received
    /\ received' = received \cup {a}
    /\ LET parents == GetUnprocessedParentAnchors(a, processedAnchors)
       IN anchorTopic' = anchorTopic
                            \o [n \in 1..Len(parents) |-> AnchorMsg(parents[n], FALSE)]
                            \o <<AnchorMsg(a, TRUE)>>
    /\ UNCHANGED <<coreIndex, didTopic, nDidMsgs, wk, processedAnchors, didAnchors,
                   lastAck, faults>>
    /\ UNCHANGED obOthers

\* Publisher.PublishDID(did)
PublishDID(d) ==
    /\ nDidMsgs < MaxDidMsgs
    /\ nDidMsgs' = nDidMsgs + 1
    /\ didTopic' = Append(didTopic, DidMsg(d))
    /\ UNCHANGED <<coreIndex, received, anchorTopic, wk, processedAnchors, didAnchors,
                   lastAck, faults>>
    /\ UNCHANGED obOthers

\* handleAnchor: a worker of the pool takes the next message of the anchor
\* topic; AnchorGraph.Read(anchor.Hashlink), whose error is returned as it is.
HandleAnchor(w, e) ==
    /\ wk[w].pc = "idle"
    /\ anchorTopic # <<>>
    /\ CanFail(e)
    /\ faults' = Spend(e)
    /\ LET r == [IdleWorker EXCEPT !.msg = Head(anchorTopic), !.cur = Head(anchorTopic).hl]
       IN Settle(w,
                 IF e # Nil THEN [Raised(r, e) EXCEPT !.pc = "ack", !.err = e]
                            ELSE [r EXCEPT !.pc = "process"],
                 Tail(anchorTopic), didTopic)
    /\ UNCHANGED <<coreIndex, received, nDidMsgs, processedAnchors, didAnchors>>
    /\ UNCHANGED obOthers

\* processDID: a worker of the pool takes the next message of the did topic;
\* getDidParts(did), whose error is returned.
HandleDID(w) ==
    /\ wk[w].pc = "idle"
    /\ didTopic # <<>>
    /\ LET r == [IdleWorker EXCEPT !.msg = Head(didTopic)]
           parts == GetDidParts(r.msg.did)
       IN Settle(w,
                 IF parts[3] # Nil
                   THEN [Raised(r, parts[3]) EXCEPT !.pc = "ack", !.err = parts[3]]
                   ELSE [r EXCEPT !.pc = "did_anchors",
                                  !.cur = AnchorOf(parts[1]),
                                  !.suffix = parts[2][1]],
                 anchorTopic, Tail(didTopic))
    /\ UNCHANGED <<coreIndex, received, nDidMsgs, processedAnchors, didAnchors, faults>>
    /\ UNCHANGED obOthers

\* processDID: AnchorGraph.GetDidAnchors(cidWithHint, suffix), whose error is
\* returned as it is; then the loop over the anchors of the DID begins.
GetDidAnchors(w, e) ==
    /\ wk[w].pc = "did_anchors"
    /\ CanFail(e)
    /\ wk[w].cur = NoAnchor => e = Nil
    /\ faults' = Spend(e)
    /\ LET err == IF wk[w].cur = NoAnchor THEN PlainError ELSE e
       IN Settle(w,
                 IF err # Nil
                   THEN [Raised(wk[w], err) EXCEPT !.pc = "ack", !.err = err]
                   ELSE NextDidAnchor([wk[w] EXCEPT
                                         !.todo = DidChain(wk[w].cur, wk[w].suffix)]),
                 anchorTopic, didTopic)
    /\ UNCHANGED <<coreIndex, received, nDidMsgs, processedAnchors, didAnchors>>
    /\ UNCHANGED obOthers

\* processAnchor up to TransactionProcessor().Process(sidetreeTxn, suffixes...):
\* the anchor is handed to the protocol client; a failure is wrapped and returned.
ProcessTxn(w, e) ==
    /\ wk[w].pc = "process"
    /\ CanFail(e)
    /\ faults' = Spend(e)
    /\ Settle(w,
              IF e # Nil THEN AfterProcessAnchor(Raised(wk[w], e), Wrap(e))
                         ELSE [wk[w] EXCEPT !.pc = "putbulk"],
              anchorTopic, didTopic)
    /\ UNCHANGED <<coreIndex, received, nDidMsgs, processedAnchors, didAnchors>>
    /\ UNCHANGED obOthers

\* The suffixes processAnchor passes to Process: those of the anchor, or the
\* one suffix of the DID message.
ProcessSuffixes(r) == IF r.msg.kind = "did" THEN {r.suffix} ELSE coreIndex[r.cur]

\* The suffixes processAnchor passes to PutBulk: getKeys(PreviousAnchors).
PutBulkSuffixes(r) == coreIndex[r.cur]

\* processAnchor: DidAnchors.PutBulk(getKeys(PreviousAnchors), anchor.Hashlink);
\* a failure is wrapped and returned. The anchor recorded in the DID -> anchor
\* index is from then on in the processed-anchor index.
PutBulk(w, e1, e2) ==
    /\ wk[w].pc = "putbulk"
    /\ LET keys == PutBulkSuffixes(wk[w])
           newKeys == {k \in keys : IsNewKey(wk[w].cur, k)}
           dup == Batch(didAnchors, keys, newKeys, wk[w].cur, e1)[2] = ErrDuplicateKey
           res == StorePutBulk(didAnchors, keys, newKeys, wk[w].cur, e1, e2)
       IN /\ e2 # Nil => dup
          /\ (IF e1 = Nil THEN 0 ELSE 1) + (IF e2 = Nil THEN 0 ELSE 1) <= faults
          /\ faults' = faults - (IF e1 = Nil THEN 0 ELSE 1) - (IF e2 = Nil THEN 0 ELSE 1)
          /\ didAnchors' = res[1]
          /\ IF res[2] # Nil
               THEN /\ Settle(w, AfterProcessAnchor(Raised(wk[w], res[2]), Wrap(res[2])),
                              anchorTopic, didTopic)
                    /\ UNCHANGED processedAnchors
               ELSE /\ Settle(w, [wk[w] EXCEPT !.pc = "like", !.retried = dup],
                              anchorTopic, didTopic)
                    /\ processedAnchors' = processedAnchors \cup {wk[w].cur}
    /\ UNCHANGED <<coreIndex, received, nDidMsgs>>
    /\ UNCHANGED obOthers

\* processAnchor: postLikeActivity(anchor); nothing is posted when AttributedTo
\* is empty; a failure is logged and processAnchor returns nil.
PostLike(w, e) ==
    /\ wk[w].pc = "like"
    /\ CanFail(e)
    /\ e # Nil => wk[w].msg.attributedTo
    /\ faults' = Spend(e)
    /\ Settle(w, AfterProcessAnchor([wk[w] EXCEPT !.likeT = @ \/ IsTransient(e)],
                                    LikeOutcome(e)),
              anchorTopic, didTopic)
    /\ UNCHANGED <<coreIndex, received, nDidMsgs, processedAnchors, didAnchors>>
    /\ UNCHANGED obOthers

ObNext ==
    \/ \E a \in Anchors : ReceiveAnchor(a)
    \/ \E d \in DidStrings : PublishDID(d)
    \/ \E w \in Workers :
        \/ HandleDID(w)
        \/ \E e \in Failures \cup {Nil} :
            \/ HandleAnchor(w, e)
            \/ GetDidAnchors(w, e)
            \/ ProcessTxn(w, e)
            \/ PostLike(w, e)
            \/ \E e2 \in Failures \cup {Nil} : PutBulk(w, e, e2)

(***************************************************************************)
(* Observer claims                                                         *)
(***************************************************************************)

\* C2: for every anchor A with up-references R, every r in R is in the
\* processed-anchor index before A is handed to the protocol client: a worker
\* whose anchor message has passed Process holds an anchor whose parents are
\* all processed.
C2_ParentsProcessedFirst ==
    \A w \in Workers :
        (wk[w].msg.kind = "anchor" /\ wk[w].pc = "putbulk")
            => Up(wk[w].cur) \subseteq processedAnchors

\* C5 as stated: a message whose handling met a transient error anywhere, the
\* posting of the Like included, is negatively acknowledged and redelivered.
C5_Original ==
    (lastAck.sawT \/ lastAck.likeT) => (lastAck.outcome = "nack" /\ lastAck.redelivered)

\* C5 as amended: a transient error raised while reading the anchor, fetching
\* the anchors of the DID, processing the anchor or updating the DID -> anchor
\* index aborts the handling (no worker goes on after it) and the message is
\* negatively acknowledged and redelivered.
C5_TransientAbortsAndNacks ==
    /\ \A w \in Workers : ~wk[w].sawT
    /\ lastAck.sawT => (lastAck.outcome = "nack" /\ lastAck.redelivered)

\* A DID message was negatively acknowledged after a transient error.
C5_Witness ==
    lastAck.kind = "did" /\ lastAck.sawT /\ lastAck.outcome = "nack" /\ lastAck.redelivered

\* C6: a message whose handling met a permanent error (and no transient one)
\* is positively acknowledged and not redelivered.
C6_PermanentAcked ==
    (lastAck.sawP /\ ~lastAck.sawT) => (lastAck.outcome = "ack" /\ ~lastAck.redelivered)

\* An anchor message was acknowledged after a permanent error.
C6_Witness ==
    lastAck.kind = "anchor" /\ lastAck.sawP /\ lastAck.outcome = "ack" /\ ~lastAck.redelivered

\* The latest of the processed anchors in which suffix s appears.
LatestProcessed(s) ==
    LET P == {a \in processedAnchors : s \in coreIndex[a]}
    IN IF P = {} THEN NoAnchor ELSE CHOOSE a \in P : \A b \in P : b <= a

\* C11: the DID -> anchor index maps every suffix to the latest anchor in
\* which it appears among the anchors processed so far.
C11_IndexMapsLatest ==
    \A s \in Suffixes : didAnchors[s] = LatestProcessed(s)

\* C12: the index update of one anchor is atomic: when PutBulk returns nil
\* every suffix of the batch maps to the anchor and no other entry has
\* changed; when it returns an error no entry has changed.
C12_PutBulkAtomic ==
    [][\A w \in Workers :
         (wk[w].pc = "putbulk" /\ wk'[w] # wk[w])
            => IF wk'[w].pc = "like"
                 THEN didAnchors' = [s \in Suffixes |->
                                       IF s \in coreIndex[wk[w].cur] THEN wk[w].cur
                                                                     ELSE didAnchors[s]]
                 ELSE didAnchors' = didAnchors]_vars

\* PutBulk has returned nil for a batch of two suffixes whose first bulk
\* write was rejected and retried: both suffixes map to the anchor.
C12_Witness ==
    \E w \in Workers :
        /\ wk[w].pc = "like"
        /\ wk[w].retried
        /\ coreIndex[wk[w].cur] = Suffixes
        /\ \A s \in Suffixes : didAnchors[s] = wk[w].cur

\* C13: handling a DID message processes each anchor of the DID restricted to
\* the suffix of the message: only that suffix is passed to Process, and the
\* index entry of every other suffix is left unchanged.
C13_DidRestrictedToSuffix ==
    [][\A w \in Workers :
         (/\ wk[w].msg.kind = "did"
          /\ wk[w].pc = "putbulk"
          /\ wk[w].suffix \in coreIndex[wk[w].cur]
          /\ wk'[w] # wk[w])
            => /\ ProcessSuffixes(wk[w]) = {wk[w].suffix}
               /\ \A s \in Suffixes \ {wk[w].suffix} : didAnchors'[s] = didAnchors[s]]_vars

\* C25: a failure to post the Like activity after an anchor was processed is
\* not a processing failure: processAnchor still reports success, so that the
\* anchor message is acknowledged and not redelivered, even when the failure
\* is a transient one.
C25_LikeFailureNotRetried ==
    lastAck.likeT =>
        /\ lastAck.kind = "anchor"
        /\ lastAck.outcome = "ack"
        /\ ~lastAck.redelivered

\* C25 witness: an anchor message whose Like could not be posted because of a
\* transient failure, and which met no other failure, was acknowledged.
C25_Witness ==
    /\ lastAck.kind = "anchor"
    /\ lastAck.likeT
    /\ ~lastAck.sawT
    /\ ~lastAck.sawP
    /\ lastAck.outcome = "ack"
    /\ processedAnchors # {}

(***************************************************************************)
(* CAS resolver: Resolve(webCASURL, hashlink, data)                        *)
(***************************************************************************)

\* Number of HTTPS endpoints (alternate links, hint) an identifier may carry.
MaxLinks == 2
\* Number of Resolve calls.
MaxResolves == 2

None == "none"
Contents == {"b1", "b2"}

\* The resource hash (multihash) of a content.
Multihash(b) == IF b = "b1" THEN "mh1" ELSE IF b = "b2" THEN "mh2" ELSE "mh0"

\* The hashes a request may carry: "mh3" is the hash of no content at hand.
Hashes == {Multihash(b) : b \in Contents} \cup {"mh3"}

\* What a remote tier answers: the content it holds, 404, or a failure of
\* the transport.
Responses == Contents \cup {"404", "error"}

\* orberrors.ErrContentNotFound
ErrContentNotFound == <<"content not found">>

\* The resource hash produced by the local CAS does not match the hash of
\* the request.
ErrHashMismatch == <<"context", "does not match the resource hash from the original request">>

\* localCAS.Write(data): the content is stored under its own hash.
CasWrite(cas, b) == [cas EXCEPT ![Multihash(b)] = b]

\* The stored copy of a content is discarded.
CasDiscard(cas, b) == [cas EXCEPT ![Multihash(b)] = None]

\* localCAS.Read(hash)
CasRead(cas, h) == cas[h]

\* The hashlink of the content in the local CAS.
LocalHashlink(h) == <<"hl", ":", h>>

\* Mutant of StoreLocally: the hash of the stored content is not compared.
StoreLocallyNoVerify(cas, b, h, wfail) ==
    IF wfail THEN <<cas, <<>>, NewTransient(PlainError)>>
    ELSE <<CasWrite(cas, b), LocalHashlink(Multihash(b)), Nil>>

\* Mutant of StoreLocally: a mismatching copy stays in the local CAS.
StoreLocallyKeepsCopy(cas, b, h, wfail) ==
    IF wfail THEN <<cas, <<>>, NewTransient(PlainError)>>
    ELSE IF Multihash(b) # h THEN <<CasWrite(cas, b), <<>>, ErrHashMismatch>>
    ELSE <<CasWrite(cas, b), LocalHashlink(h), Nil>>

\* storeLocally(data, hl): <<local CAS, local hashlink, err>>. The content is
\* written to the local CAS, which computes its hash; a hash other than the
\* requested one is a permanent error and the stored copy is discarded; a
\* failure of the write is transient.
StoreLocally(cas, b, h, wfail) ==
    IF wfail THEN <<cas, <<>>, NewTransient(PlainError)>>
    ELSE IF Multihash(b) # h THEN <<CasDiscard(CasWrite(cas, b), b), <<>>, ErrHashMismatch>>
    ELSE <<CasWrite(cas, b), LocalHashlink(h), Nil>>

\* Mutant of ExhaustedError: every exhausted resolution is a transient error.
ExhaustedAlwaysTransient(fs) == NewTransient(<<"endpoint failures">>)

\* The error of a resolution whose tiers all failed: ContentNotFound when
\* every attempt reported the content as not present, else a transient error.
ExhaustedError(fs) ==
    IF \A n \in 1..Len(fs) : fs[n].status = "404"
      THEN ErrContentNotFound
      ELSE NewTransient(<<"endpoint failures">>)

\* What Resolve returned; got is the content the tier supplied and wrote tells
\* whether it was written to the local CAS.
NoResult ==
    [via |-> None, data |-> None, localHL |-> <<>>, err |-> Nil, failures |-> <<>>,
     got |-> None, wrote |-> FALSE]

NoRequest == [hash |-> None, data |-> None, ipfs |-> FALSE, links |-> 0]

\* The local CAS holding exactly the contents of S.
CasOf(S) == [h \in Hashes |-> IF \E b \in S : Multihash(b) = h
                                THEN CHOOSE b \in S : Multihash(b) = h
                                ELSE None]

RsInit ==
    /\ localCAS \in {CasOf(S) : S \in SUBSET Contents}
    /\ rq = NoRequest
    /\ rpc = "idle"
    /\ tried = <<>>
    /\ rres = NoResult
    /\ nResolves = 0

\* Resolve has returned.
RsReturn(via, cas, data, hl, err, fs, got, wrote) ==
    /\ rpc' = "done"
    /\ localCAS' = cas
    /\ rres' = [via |-> via, data |-> data, localHL |-> hl, err |-> err, failures |-> fs,
                got |-> got, wrote |-> wrote]

\* Resolve returns what storeLocally made of the content b of a tier.
RsStore(via, b, wfail) ==
    LET st == StoreLocally(localCAS, b, rq.hash, wfail)
    IN RsReturn(via, st[1], IF st[3] = Nil THEN b ELSE None, st[2], st[3], <<>>, b, ~wfail)

\* Resolve is called with an identifier and, possibly, the data.
RsCall(h, d, ipfs, n) ==
    /\ rpc \in {"idle", "done"}
    /\ nResolves < MaxResolves
    /\ nResolves' = nResolves + 1
    /\ rq' = [hash |-> h, data |-> d, ipfs |-> ipfs, links |-> n]
    /\ rpc' = "inline"
    /\ tried' = <<>>
    /\ rres' = NoResult
    /\ UNCHANGED localCAS
    /\ UNCHANGED rsOthers

\* 1. bytes passed in with the call: verify the hash, then store.
RsInline(wfail) ==
    /\ rpc = "inline"
    /\ IF rq.data # None
         THEN RsStore("inline", rq.data, wfail)
         ELSE /\ ~wfail
              /\ rpc' = "local"
              /\ UNCHANGED <<localCAS, rres>>
    /\ UNCHANGED <<rq, tried, nResolves>>
    /\ UNCHANGED rsOthers

\* 2. look up locally: a hit is returned, without a local hashlink; a failure
\* other than not-found is transient.
RsLocal(rfail) ==
    /\ rpc = "local"
    /\ IF rfail
         THEN RsReturn("local", localCAS, None, <<>>, NewTransient(PlainError), <<>>,
                       None, FALSE)
         ELSE IF CasRead(localCAS, rq.hash) # None
           THEN RsReturn("local", localCAS, CasRead(localCAS, rq.hash), <<>>, Nil, <<>>,
                         CasRead(localCAS, rq.hash), FALSE)
           ELSE /\ rpc' = "ipfs"
                /\ UNCHANGED <<localCAS, rres>>
    /\ UNCHANGED <<rq, tried, nResolves>>
    /\ UNCHANGED rsOthers

\* 3. the identifier carries ipfs:// links: use IPFS.
RsIPFS(resp, wfail) ==
    /\ rpc = "ipfs"
    /\ IF ~rq.ipfs
         THEN /\ resp = "404" /\ ~wfail
              /\ rpc' = "links"
              /\ UNCHANGED <<localCAS, rres, tried>>
         ELSE IF resp \in Contents
           THEN /\ RsStore("ipfs", resp, wfail)
                /\ UNCHANGED tried
           ELSE /\ ~wfail
                /\ rpc' = "links"
                /\ tried' = Append(tried, [endpoint |-> "ipfs", status |-> resp])
                /\ UNCHANGED <<localCAS, rres>>
    /\ UNCHANGED <<rq, nResolves>>
    /\ UNCHANGED rsOthers

\* The HTTPS endpoints of an identifier, in the order of its links.
LinkNames == <<"https-1", "https-2", "https-3", "https-4">>

\* The number of HTTPS endpoints tried so far.
LinksTried == Cardinality({n \in 1..Len(tried) : tried[n].endpoint # "ipfs"})

\* 4, 5. the next HTTPS endpoint: a signed GET; the first success is used.
RsLink(resp, wfail) ==
    /\ rpc = "links"
    /\ LinksTried < rq.links
    /\ IF resp \in Contents
         THEN /\ RsStore("webcas", resp, wfail)
              /\ UNCHANGED tried
         ELSE /\ ~wfail
              /\ tried' = Append(tried, [endpoint |-> LinkNames[LinksTried + 1], status |-> resp])
              /\ UNCHANGED <<localCAS, rres, rpc>>
    /\ UNCHANGED <<rq, nResolves>>
    /\ UNCHANGED rsOthers

\* 6. all of the above failed.
RsExhausted ==
    /\ rpc = "links"
    /\ LinksTried = rq.links
    /\ RsReturn("exhausted", localCAS, None, <<>>, ExhaustedError(tried),
                IF IsTransient(ExhaustedError(tried)) THEN tried ELSE <<>>, None, FALSE)
    /\ UNCHANGED <<rq, tried, nResolves>>
    /\ UNCHANGED rsOthers

RsNext ==
    \/ \E h \in Hashes, d \in Contents \cup {None}, ipfs \in BOOLEAN, n \in 0..MaxLinks :
          RsCall(h, d, ipfs, n)
    \/ \E wfail \in BOOLEAN : RsInline(wfail)
    \/ \E rfail \in BOOLEAN : RsLocal(rfail)
    \/ \E resp \in Responses, wfail \in BOOLEAN : RsIPFS(resp, wfail)
    \/ \E resp \in Responses, wfail \in BOOLEAN : RsLink(resp, wfail)
    \/ RsExhausted

(***************************************************************************)
(* CAS resolver claims                                                     *)
(***************************************************************************)

\* C14: whenever Resolve returns bytes, their multihash is the hash of the
\* request, whichever tier supplied them.
C14_ResolvedBytesMatchHash ==
    (rpc = "done" /\ rres.err = Nil)
        => (rres.data # None /\ Multihash(rres.data) = rq.hash)

\* Resolve has returned bytes of a remote WebCAS endpoint and of the local CAS.
C14_Witness ==
    /\ rpc = "done"
    /\ rres.err = Nil
    /\ rres.via = "webcas"
    /\ rres.data = CasRead(localCAS, rq.hash)

C16_ExhaustedError ==
    (rpc = "done" /\ rres.via = "exhausted")
        => /\ rres.data = None
           /\ rres.localHL = <<>>
           /\ IF \A n \in 1..Len(tried) : tried[n].status = "404"
                THEN rres.err = ErrContentNotFound
                ELSE IsTransient(rres.err) /\ rres.failures = tried

\* Two endpoints failed, one with 404 and one with a transport failure.
C16_Witness ==
    /\ rpc = "done"
    /\ rres.via = "exhausted"
    /\ Len(tried) = 2
    /\ \E n \in 1..2 : tried[n].status = "404"
    /\ \E n \in 1..2 : tried[n].status = "error"
    /\ IsTransient(rres.err)

(***************************************************************************)
(* Ancestor walk: getUnprocessedParentAnchors over any reference graph     *)
(***************************************************************************)

\* Number of anchors of the reference graph.
NumNodes == 3
\* The depth at which the walk gives up.
MaxWalkDepth == 3

Nodes == 1..NumNodes

\* Mutant of DepthExceeded: the depth of the walk is not bounded.
DepthNeverExceeded(depth) == FALSE

\* The walk is as deep as it may get.
DepthExceeded(depth) == depth >= MaxWalkDepth

\* The error of a walk that went deeper than the bound: a cycle, permanent.
ErrCycle == <<"reference cycle: maximum depth exceeded">>

\* Mutant of AddAncestor: the anchor is put at the head of the list.
AddAncestorAtHead(acc, n) == <<n>> \o acc

\* An anchor all of whose unprocessed ancestors are in the list is added.
AddAncestor(acc, n) == Append(acc, n)

\* A frame of the work stack: an anchor and its up references still to visit.
Frame(n) == [node |-> n, todo |-> SeqOf(upRefs[n])]

\* Any reference graph, cycles included, and any processed-anchor index; the
\* walk starts from the last anchor.
WalkInit ==
    /\ upRefs \in [Nodes -> SUBSET Nodes]
    /\ wProcessed \in SUBSET Nodes
    /\ wStart = NumNodes
    /\ wStack = <<[node |-> wStart, todo |-> SeqOf(upRefs[wStart])]>>
    /\ wAcc = <<>>
    /\ wErr = Nil
    /\ wPc = "walking"
    /\ wSteps = 0

\* The stack with its top frame replaced by f.
WithTop(f) == [wStack EXCEPT ![Len(wStack)] = f]

\* The next up reference of the anchor on top of the stack is processed, or
\* found already: it is skipped.
WalkSkip ==
    /\ wPc = "walking"
    /\ wStack[Len(wStack)].todo # <<>>
    /\ LET top == wStack[Len(wStack)]
           p == Head(top.todo)
       IN /\ p \in wProcessed \/ InSeq(p, wAcc)
          /\ wStack' = WithTop([top EXCEPT !.todo = Tail(@)])
    /\ wSteps' = wSteps + 1
    /\ UNCHANGED <<upRefs, wProcessed, wStart, wAcc, wErr, wPc>>
    /\ UNCHANGED wkOthers

\* The next up reference is unprocessed: the walk recurses into it.
WalkDescend ==
    /\ wPc = "walking"
    /\ wStack[Len(wStack)].todo # <<>>
    /\ LET top == wStack[Len(wStack)]
           p == Head(top.todo)
       IN /\ ~(p \in wProcessed \/ InSeq(p, wAcc))
          /\ ~DepthExceeded(Len(wStack))
          /\ wStack' = Append(WithTop([top EXCEPT !.todo = Tail(@)]), Frame(p))
    /\ wSteps' = wSteps + 1
    /\ UNCHANGED <<upRefs, wProcessed, wStart, wAcc, wErr, wPc>>
    /\ UNCHANGED wkOthers

\* The walk would go deeper than the bound: a cycle, reported as an error.
WalkCycle ==
    /\ wPc = "walking"
    /\ wStack[Len(wStack)].todo # <<>>
    /\ LET p == Head(wStack[Len(wStack)].todo)
       IN /\ ~(p \in wProcessed \/ InSeq(p, wAcc))
          /\ DepthExceeded(Len(wStack))
    /\ wErr' = ErrCycle
    /\ wAcc' = <<>>
    /\ wPc' = "done"
    /\ wSteps' = wSteps + 1
    /\ UNCHANGED <<upRefs, wProcessed, wStart, wStack>>
    /\ UNCHANGED wkOthers

\* Every up reference of the anchor on top of the stack was visited: the
\* anchor is added to the list (the start anchor is not) and the walk returns
\* to the anchor below, or ends.
WalkReturn ==
    /\ wPc = "walking"
    /\ wStack[Len(wStack)].todo = <<>>
    /\ wAcc' = IF Len(wStack) > 1 THEN AddAncestor(wAcc, wStack[Len(wStack)].node) ELSE wAcc
    /\ wStack' = SubSeq(wStack, 1, Len(wStack) - 1)
    /\ wPc' = IF Len(wStack) > 1 THEN "walking" ELSE "done"
    /\ wSteps' = wSteps + 1
    /\ UNCHANGED <<upRefs, wProcessed, wStart, wErr>>
    /\ UNCHANGED wkOthers

WalkNext == WalkSkip \/ WalkDescend \/ WalkCycle \/ WalkReturn

(***************************************************************************)
(* Ancestor walk claims                                                    *)
(***************************************************************************)

\* C17: the walk returns the unprocessed ancestors deepest first: every
\* returned ancestor comes before every returned anchor that references it.
C17_DeepestFirst ==
    (wPc = "done" /\ wErr = Nil)
        => \A i, j \in 1..Len(wAcc) : wAcc[i] \in upRefs[wAcc[j]] => i < j

\* The walk has returned a grandparent and then the parent that references it.
C17_Witness ==
    /\ wPc = "done"
    /\ wErr = Nil
    /\ Len(wAcc) = 2
    /\ wAcc[1] \in upRefs[wAcc[2]]
    /\ wAcc[2] \in upRefs[wStart]

\* The anchors S and their unprocessed ancestors.
RECURSIVE WithUnprocessedAncestors(_)
WithUnprocessedAncestors(S) ==
    LET T == S \cup {p \in Nodes \ wProcessed : \E n \in S : p \in upRefs[n]}
    IN IF T = S THEN S ELSE WithUnprocessedAncestors(T)

\* The unprocessed ancestors of anchor n.
UnprocessedAncestors(n) == WithUnprocessedAncestors(upRefs[n] \ wProcessed)

\* The walk from the start anchor meets a cycle of unprocessed anchors.
MeetsCycle ==
    \E n \in {wStart} \cup UnprocessedAncestors(wStart) : n \in UnprocessedAncestors(n)

\* The number of steps no walk exceeds.
WalkStepBound == (NumNodes + MaxWalkDepth + 1) * (NumNodes + 1)

\* C18: the walk terminates on every reference graph: it never goes deeper
\* than the bound, it ends within a bounded number of steps, it can go on
\* until it has ended, and a cycle ends it with a permanent error.
C18_WalkTerminates ==
    /\ Len(wStack) <= MaxWalkDepth
    /\ wSteps <= WalkStepBound
    /\ wPc = "walking" => ENABLED WalkNext
    /\ (wPc = "done" /\ MeetsCycle) => (wErr = ErrCycle /\ IsPermanent(wErr) /\ wAcc = <<>>)

\* A walk over a graph with a cycle has ended with the error.
C18_Witness ==
    /\ wPc = "done"
    /\ MeetsCycle
    /\ wErr = ErrCycle
    /\ wStart \notin upRefs[wStart]

-----------------------------------------------------------------------------
(***************************************************************************)
(* Paged ordered collections (REST handlers of the activity protocol).     *)
(* The items of a collection are numbered 1..N in insertion order.         *)
(***************************************************************************)

MaxItems == 8
MaxPageSize == 4
MaxVisits == MaxItems + 3

SortAscending == "asc"
SortDescending == "desc"
SortOrders == {SortAscending, SortDescending}

getPrevNextAscendingNoClamp(current, first, last) ==
    <<IF current > first THEN current - 1 ELSE -1,
      IF current < last THEN current + 1 ELSE -1>>

\* The (prev, next) page numbers; -1 stands for "no such page".
getPrevNextAscending(current, first, last) ==
    LET next == IF current < last THEN current + 1 ELSE -1
        prev == IF current > first
                THEN (IF current > last THEN last ELSE current - 1)
                ELSE -1
    IN  <<prev, next>>

getPrevNextDescendingStepsUp(current, first, last) ==
    <<IF current < first THEN current + 1 ELSE -1,
      IF current < first THEN current + 1 ELSE -1>>

getPrevNextDescending(current, first, last) ==
    LET next == IF current > last
                THEN (IF current > first THEN first ELSE current - 1)
                ELSE -1
        prev == IF current < first THEN current + 1 ELSE -1
    IN  <<prev, next>>

getFirstPageNum(totalItems, pageSize, sortOrder) ==
    IF sortOrder = SortAscending THEN 0
    ELSE IF totalItems % pageSize > 0 THEN totalItems \div pageSize
    ELSE (totalItems \div pageSize) - 1

getLastPageNumNoRemainder(totalItems, pageSize, sortOrder) ==
    IF sortOrder = SortDescending THEN 0 ELSE (totalItems \div pageSize) - 1

getLastPageNum(totalItems, pageSize, sortOrder) ==
    IF sortOrder = SortDescending THEN 0
    ELSE IF totalItems % pageSize > 0 THEN totalItems \div pageSize
    ELSE (totalItems \div pageSize) - 1

\* spi.QueryOptions of a page request; PageNumber -1: no page number given.
QueryOptions(pageNumber) ==
    [PageSize |-> pgP, PageNumber |-> pageNumber, SortOrder |-> pgOrder]

getCurrentPrevNext(totalItems, options) ==
    LET first == getFirstPageNum(totalItems, options.PageSize, options.SortOrder)
        last == getLastPageNum(totalItems, options.PageSize, options.SortOrder)
        current == IF options.PageNumber >= 0 THEN options.PageNumber ELSE first
        pn == IF options.SortOrder = SortDescending
              THEN getPrevNextDescending(current, first, last)
              ELSE getPrevNextAscending(current, first, last)
    IN  [current |-> current, prev |-> pn[1], next |-> pn[2]]

Digits == <<"0", "1", "2", "3", "4", "5", "6", "7", "8", "9">>
IsDigit(ch) == \E i \in DOMAIN Digits : Digits[i] = ch
DigitValue(ch) == (CHOOSE i \in DOMAIN Digits : Digits[i] = ch) - 1

\* fmt.Sprintf("%d", n), for n >= 0
RECURSIVE Itoa(_)
Itoa(n) ==
    IF n < 10 THEN <<Digits[n + 1]>>
    ELSE Itoa(n \div 10) \o <<Digits[(n % 10) + 1]>>

RECURSIVE DigitsValue(_)
DigitsValue(str) ==
    IF str = <<>> THEN 0
    ELSE DigitsValue(SubSeq(str, 1, Len(str) - 1)) * 10 + DigitValue(str[Len(str)])

\* strconv.Atoi: an optional sign followed by at least one decimal digit.
Atoi(str) ==
    LET signed == str # <<>> /\ str[1] \in {"+", "-"}
        body == IF signed THEN Tail(str) ELSE str
    IN  IF body = <<>> \/ \E i \in DOMAIN body : ~IsDigit(body[i])
        THEN [n |-> 0, err |-> TRUE]
        ELSE [n |-> IF signed /\ str[1] = "-" THEN 0 - DigitsValue(body)
                    ELSE DigitsValue(body),
              err |-> FALSE]

paramAsIntIgnoresError(values) ==
    [n |-> IF values = <<>> THEN 0 ELSE Atoi(values[1]).n, ok |-> TRUE]

\* The (value, ok) of an integer query parameter; values are the values the
\* request gives for it.
paramAsInt(values) ==
    IF Len(values) = 0 \/ values[1] = <<>> THEN [n |-> 0, ok |-> FALSE]
    ELSE IF Atoi(values[1]).err THEN [n |-> 0, ok |-> FALSE]
    ELSE [n |-> Atoi(values[1]).n, ok |-> TRUE]

\* A page URL: "?page=true&page-num=<n>", or "?page=true" for a negative n.
getPageID(pageNum) ==
    IF pageNum >= 0
    THEN [page |-> TRUE, pageNum |-> <<Itoa(pageNum)>>]
    ELSE [page |-> TRUE, pageNum |-> <<>>]

NoLink == [page |-> FALSE, pageNum |-> <<>>]

getPageNum(link) == paramAsInt(link.pageNum)

\* The page number of the query options of a page request: the "page-num"
\* parameter when it is given and valid, the default -1 otherwise.
PageNumberOf(link) ==
    IF getPageNum(link).ok THEN getPageNum(link).n ELSE -1

Min(a, b) == IF a < b THEN a ELSE b

\* The items a page query returns from the store: page k of an ascending
\* query holds the items from offset k * PageSize of the insertion order;
\* page k of a descending query holds the items from offset
\* (first - k) * PageSize of the reverse insertion order.
QueryPage(totalItems, options) ==
    LET first == getFirstPageNum(totalItems, options.PageSize, options.SortOrder)
        k == IF options.PageNumber >= 0 THEN options.PageNumber ELSE first
        offset == IF options.SortOrder = SortAscending
                  THEN k * options.PageSize
                  ELSE (first - k) * options.PageSize
        count == IF offset < 0 \/ offset >= totalItems THEN 0
                 ELSE Min(options.PageSize, totalItems - offset)
    IN  [i \in 1..count |->
            IF options.SortOrder = SortAscending
            THEN offset + i
            ELSE totalItems - offset - i + 1]

\* The id, prev and next links of the page a request names, and the items
\* the store returns for it.
getIDPrevNextURL(link) ==
    LET options == QueryOptions(PageNumberOf(link))
        cpn == getCurrentPrevNext(pgN, options)
    IN  [id |-> getPageID(cpn.current),
         prev |-> IF cpn.prev >= 0 THEN getPageID(cpn.prev) ELSE NoLink,
         next |-> IF cpn.next >= 0 THEN getPageID(cpn.next) ELSE NoLink,
         current |-> cpn.current,
         orderedItems |-> QueryPage(pgN, options)]

NoResponse ==
    [id |-> NoLink, prev |-> NoLink, next |-> NoLink, current |-> -1,
     orderedItems |-> <<>>]

MaxParamLen == 2
ParamChars == {"0", "1", "3", "7", "-", "x"}

\* The strings a client may send as the value of "page-num".
ParamStrings ==
    UNION {[1..n -> ParamChars] : n \in 0..MaxParamLen}

\* The values of the "page-num" parameter of a request: none, or one string.
ParamValues == {<<>>} \cup {<<str>> : str \in ParamStrings}

PgInit ==
    /\ pgN \in 0..MaxItems
    /\ pgP \in 1..MaxPageSize
    /\ pgOrder \in SortOrders
    /\ pgPc = "root"
    /\ pgLink = NoLink
    /\ pgFirst = -1
    /\ pgLast = -1
    /\ pgVisited = <<>>
    /\ pgItems = <<>>
    /\ pgReq = NoLink
    /\ pgResp = NoResponse

\* GET of the collection: totalItems, the link to the first page (without a
\* page number) and the link to the last page.
GetCollection ==
    /\ pgPc = "root"
    /\ pgFirst' = getFirstPageNum(pgN, pgP, pgOrder)
    /\ pgLast' = getLastPageNum(pgN, pgP, pgOrder)
    /\ pgLink' = getPageID(-1)
    /\ pgPc' = "paging"
    /\ UNCHANGED <<pgN, pgP, pgOrder, pgVisited, pgItems, pgReq, pgResp>>
    /\ UNCHANGED pgOthers

\* GET of the page the link names: its items, and the link to the next page.
GetPage ==
    /\ pgPc = "paging"
    /\ pgLink.page
    /\ Len(pgVisited) < MaxVisits
    /\ LET resp == getIDPrevNextURL(pgLink)
       IN  /\ pgReq' = pgLink
           /\ pgResp' = resp
           /\ pgVisited' = Append(pgVisited, resp.current)
           /\ pgItems' = pgItems \o resp.orderedItems
           /\ pgLink' = resp.next
           /\ pgPc' = IF resp.next.page THEN "paging" ELSE "done"
    /\ UNCHANGED <<pgN, pgP, pgOrder, pgFirst, pgLast>>
    /\ UNCHANGED pgOthers

\* GET of a page by a "page-num" value the client chose itself.
RequestPage(values) ==
    /\ pgPc = "root"
    /\ LET link == [page |-> TRUE, pageNum |-> values]
       IN  /\ pgReq' = link
           /\ pgResp' = getIDPrevNextURL(link)
    /\ pgPc' = "direct"
    /\ UNCHANGED <<pgN, pgP, pgOrder, pgLink, pgFirst, pgLast, pgVisited, pgItems>>
    /\ UNCHANGED pgOthers

PgNext ==
    \/ GetCollection
    \/ GetPage
    \/ \E values \in ParamValues : RequestPage(values)

\* ceiling of n / p, for n >= 0 and p > 0
CeilDiv(n, p) == CHOOSE q \in 0..n : q * p >= n /\ (q = 0 \/ (q - 1) * p < n)

InsertionOrder(n) == [i \in 1..n |-> i]
ReverseInsertionOrder(n) == [i \in 1..n |-> n - i + 1]

\* C19: starting at the first page and following the next links until none
\* is left visits every page exactly once, and the items of the visited
\* pages, put end to end, are the items of the collection, each exactly
\* once, in insertion order when ascending and in reverse insertion order
\* when descending.
C19_PaginationRoundTrip ==
    /\ Len(pgVisited) < MaxVisits
    /\ \A i, j \in DOMAIN pgVisited : i # j => pgVisited[i] # pgVisited[j]
    /\ pgPc = "done" =>
        /\ \A k \in 0..(CeilDiv(pgN, pgP) - 1) :
              \E i \in DOMAIN pgVisited : pgVisited[i] = k
        /\ pgN > 0 => Len(pgVisited) = CeilDiv(pgN, pgP)
        /\ pgOrder = SortAscending => pgItems = InsertionOrder(pgN)
        /\ pgOrder = SortDescending => pgItems = ReverseInsertionOrder(pgN)

\* C19 witness: a descending walk over several pages, the last of them
\* partly filled, has ended.
C19_Witness ==
    /\ pgPc = "done"
    /\ pgOrder = SortDescending
    /\ Len(pgVisited) >= 3
    /\ pgN % pgP > 0
    /\ pgItems = ReverseInsertionOrder(pgN)

\* C20: the first and last page numbers of a collection of N items with
\* page size P are 0 and ceil(N/P) - 1 in ascending order, and ceil(N/P) - 1
\* and 0 in descending order.
C20_FirstLastPageNum ==
    pgPc \in {"paging", "done"} =>
        /\ pgOrder = SortAscending =>
              pgFirst = 0 /\ pgLast = CeilDiv(pgN, pgP) - 1
        /\ pgOrder = SortDescending =>
              pgFirst = CeilDiv(pgN, pgP) - 1 /\ pgLast = 0

\* C20 witness: the page numbers of an ascending collection whose last page
\* is partly filled have been computed.
C20_Witness ==
    /\ pgPc \in {"paging", "done"}
    /\ pgOrder = SortAscending
    /\ pgN % pgP > 0
    /\ pgN > pgP
    /\ pgLast = pgN \div pgP

\* The page with the highest number, and a request that names a page
\* beyond it.
HighestPage == CeilDiv(pgN, pgP) - 1
BeyondLastPage ==
    /\ pgPc = "direct"
    /\ pgN > 0
    /\ getPageNum(pgReq).ok
    /\ getPageNum(pgReq).n > HighestPage

\* C21 (as stated): a request for a page number beyond the last page is
\* answered with an empty page whose next link points to the valid last page
\* (the last page of the sort order or, read generously, the page with the
\* highest number).
C21_Original ==
    BeyondLastPage =>
        /\ pgResp.orderedItems = <<>>
        /\ pgResp.next \in {getPageID(getLastPageNum(pgN, pgP, pgOrder)),
                            getPageID(HighestPage)}

\* C21 (amended): a request for a page number beyond the highest page number
\* of a non-empty collection is answered with an empty page that keeps the
\* requested number as its id; in descending order its next link points to
\* the first page (the page with the highest number) and it has no prev
\* link; in ascending order its prev link points to the last page and it
\* has no next link.
C21_BeyondLastPage ==
    BeyondLastPage =>
        /\ pgResp.orderedItems = <<>>
        /\ pgResp.id = getPageID(getPageNum(pgReq).n)
        /\ pgOrder = SortDescending =>
              /\ pgResp.next = getPageID(HighestPage)
              /\ HighestPage = getFirstPageNum(pgN, pgP, pgOrder)
              /\ pgResp.prev = NoLink
        /\ pgOrder = SortAscending =>
              /\ pgResp.prev = getPageID(HighestPage)
              /\ HighestPage = getLastPageNum(pgN, pgP, pgOrder)
              /\ pgResp.next = NoLink

\* C21 witness: an ascending collection of several pages was asked for a
\* page beyond its last one.
C21_Witness ==
    /\ BeyondLastPage
    /\ pgOrder = SortAscending
    /\ HighestPage >= 2
    /\ pgResp.prev = getPageID(HighestPage)
    /\ pgResp.next = NoLink

\* A string that is a decimal integer: an optional sign and then digits.
IsInteger(str) ==
    \E k \in {0, 1} :
        /\ Len(str) > k
        /\ k = 1 => str[1] \in {"+", "-"}
        /\ \A i \in (k + 1)..Len(str) : IsDigit(str[i])

InvalidPageNum ==
    /\ pgPc = "direct"
    /\ pgReq.pageNum # <<>>
    /\ ~IsInteger(pgReq.pageNum[1])

\* The first page of the collection: its number and its items.
FirstPageItems ==
    [i \in 1..Min(pgP, pgN) |->
        IF pgOrder = SortAscending THEN i ELSE pgN - i + 1]

\* C22: a page request whose page-num is not a valid integer is answered
\* exactly like a request for the first page: same id, items, prev and next.
C22_InvalidPageNumIsFirstPage ==
    InvalidPageNum =>
        /\ pgResp = getIDPrevNextURL(getPageID(-1))
        /\ pgResp.id = getPageID(getFirstPageNum(pgN, pgP, pgOrder))
        /\ pgResp.orderedItems = FirstPageItems
        /\ pgResp.prev = NoLink

\* C22 witness: a descending collection of several pages was asked for a
\* page with a page-num that is not a number.
C22_Witness ==
    /\ InvalidPageNum
    /\ pgOrder = SortDescending
    /\ pgN > 2 * pgP
    /\ \E i \in DOMAIN pgReq.pageNum[1] : pgReq.pageNum[1][i] = "x"
    /\ pgResp.id = getPageID(HighestPage)
    /\ pgResp.next = getPageID(HighestPage - 1)

-----------------------------------------------------------------------------
(***************************************************************************)
(* activityIterator: the client-side iterator over the activities of a     *)
(* remote paged collection.  The collection may grow while it is read, so  *)
(* a retrieved page may hold any number of items and may or may not name a *)
(* further page.                                                           *)
(***************************************************************************)

MaxTotalItems == 3
MaxPageLen == 2
MaxIterCalls == 6

AllProcessedNever(numProcessed, totalItems) == FALSE

\* Next: all the items that were available at creation were processed.
AllProcessed(numProcessed, totalItems) == numProcessed >= totalItems

\* newActivityIterator(items, currentPage, nextPage, totalItems, ...)
ItInit ==
    /\ itTotalItems \in 0..MaxTotalItems
    /\ itCurrentLen \in 0..MaxPageLen
    /\ itCurrentLen <= itTotalItems
    /\ itNextPage \in BOOLEAN
    /\ itCurrentIndex = 0
    /\ itNumProcessed = 0
    /\ itReturned = 0
    /\ itBack = 0
    /\ itFetches = 0
    /\ itCalls = 0
    /\ itPageStart = 0
    /\ itSeen = {}
    /\ itLast = "created"

\* getNextPage succeeds with a page of n > 0 items, or finds an empty page.
GotPage(n, more) ==
    /\ itCurrentLen' = n
    /\ itNextPage' = more
    /\ itFetches' = itFetches + 1
    /\ itPageStart' = itPageStart + itCurrentLen

\* Next() with all the items of the creation time processed: ErrNotFound.
NextAllProcessed ==
    /\ itCalls < MaxIterCalls
    /\ itCalls' = itCalls + 1
    /\ AllProcessed(itNumProcessed, itTotalItems)
    /\ itLast' = "all processed"
    /\ UNCHANGED <<itTotalItems, itCurrentLen, itCurrentIndex, itNumProcessed,
                   itNextPage, itReturned, itBack, itFetches, itPageStart, itSeen>>
    /\ UNCHANGED itOthers

\* Next() inside the current page: the item at currentIndex.
NextItem ==
    /\ itCalls < MaxIterCalls
    /\ itCalls' = itCalls + 1
    /\ ~AllProcessed(itNumProcessed, itTotalItems)
    /\ itCurrentIndex < itCurrentLen
    /\ itCurrentIndex' = itCurrentIndex + 1
    /\ itNumProcessed' = itNumProcessed + 1
    /\ itReturned' = itReturned + 1
    /\ itSeen' = itSeen \cup {itPageStart + itCurrentIndex}
    /\ itLast' = "item"
    /\ UNCHANGED <<itTotalItems, itCurrentLen, itNextPage, itBack, itFetches, itPageStart>>
    /\ UNCHANGED itOthers

\* Next() at the end of the current page, with no further page: ErrNotFound.
NextNoPage ==
    /\ itCalls < MaxIterCalls
    /\ itCalls' = itCalls + 1
    /\ ~AllProcessed(itNumProcessed, itTotalItems)
    /\ itCurrentIndex >= itCurrentLen
    /\ ~itNextPage
    /\ itLast' = "not found"
    /\ UNCHANGED <<itTotalItems, itCurrentLen, itCurrentIndex, itNumProcessed,
                   itNextPage, itReturned, itBack, itFetches, itPageStart, itSeen>>
    /\ UNCHANGED itOthers

\* Next() at the end of the current page whose retrieval of the next page
\* fails: the error is returned, the iterator is unchanged.
NextGetFails ==
    /\ itCalls < MaxIterCalls
    /\ itCalls' = itCalls + 1
    /\ ~AllProcessed(itNumProcessed, itTotalItems)
    /\ itCurrentIndex >= itCurrentLen
    /\ itNextPage
    /\ itLast' = "error"
    /\ UNCHANGED <<itTotalItems, itCurrentLen, itCurrentIndex, itNumProcessed,
                   itNextPage, itReturned, itBack, itFetches, itPageStart, itSeen>>
    /\ UNCHANGED itOthers

\* Next() at the end of the current page: the next page is retrieved and its
\* first item returned; an empty page is ErrNotFound.
NextFetch(n, more) ==
    /\ itCalls < MaxIterCalls
    /\ itCalls' = itCalls + 1
    /\ ~AllProcessed(itNumProcessed, itTotalItems)
    /\ itCurrentIndex >= itCurrentLen
    /\ itNextPage
    /\ GotPage(n, more)
    /\ IF n = 0
       THEN /\ itCurrentIndex' = 0
            /\ itLast' = "not found"
            /\ UNCHANGED <<itNumProcessed, itReturned, itSeen>>
       ELSE /\ itCurrentIndex' = 1
            /\ itNumProcessed' = itNumProcessed + 1
            /\ itReturned' = itReturned + 1
            /\ itSeen' = itSeen \cup {itPageStart'}
            /\ itLast' = "item"
    /\ UNCHANGED <<itTotalItems, itBack>>
    /\ UNCHANGED itOthers

\* NextPage(): the rest of the current page counts as processed when the next
\* page was retrieved or there is none.
NextPage(n, more) ==
    /\ itCalls < MaxIterCalls
    /\ itCalls' = itCalls + 1
    /\ LET unprocessedCount == itCurrentLen - itCurrentIndex
       IN  IF ~itNextPage
           THEN /\ itNumProcessed' = itNumProcessed + unprocessedCount
                /\ itLast' = "not found"
                /\ UNCHANGED <<itCurrentLen, itCurrentIndex, itNextPage, itFetches,
                               itPageStart>>
           ELSE /\ GotPage(n, more)
                /\ itCurrentIndex' = 0
                /\ itNumProcessed' = itNumProcessed + unprocessedCount
                /\ itLast' = IF n = 0 THEN "not found" ELSE "page"
    /\ UNCHANGED <<itTotalItems, itReturned, itBack, itSeen>>
    /\ UNCHANGED itOthers

\* NextPage() whose retrieval of the next page fails: the error is returned,
\* the iterator is unchanged.
NextPageGetFails ==
    /\ itCalls < MaxIterCalls
    /\ itCalls' = itCalls + 1
    /\ itNextPage
    /\ itLast' = "error"
    /\ UNCHANGED <<itTotalItems, itCurrentLen, itCurrentIndex, itNumProcessed,
                   itNextPage, itReturned, itBack, itFetches, itPageStart, itSeen>>
    /\ UNCHANGED itOthers

\* SetNextIndex(index), for an index of the current page.
SetNextIndex(index) ==
    /\ itCalls < MaxIterCalls
    /\ itCalls' = itCalls + 1
    /\ index \in 0..itCurrentLen
    /\ index # itCurrentIndex
    /\ itCurrentIndex <= itCurrentLen
    /\ itNumProcessed' = itNumProcessed + (index - itCurrentIndex)
    /\ itCurrentIndex' = index
    /\ itBack' = IF index < itCurrentIndex
                 THEN itBack + (itCurrentIndex - index) ELSE itBack
    /\ itLast' = "index set"
    /\ UNCHANGED <<itTotalItems, itCurrentLen, itNextPage, itReturned, itFetches,
                   itPageStart, itSeen>>
    /\ UNCHANGED itOthers

ItNext ==
    \/ NextAllProcessed
    \/ NextItem
    \/ NextNoPage
    \/ NextGetFails
    \/ \E n \in 0..MaxPageLen, more \in BOOLEAN : NextFetch(n, more)
    \/ \E n \in 0..MaxPageLen, more \in BOOLEAN : NextPage(n, more)
    \/ NextPageGetFails
    \/ \E index \in 0..MaxPageLen : SetNextIndex(index)

\* C23: the iterator processes only the items that were available when it
\* was created: every item Next returns is one of the first TotalItems()
\* items of the collection, so Next returns at most TotalItems() items, even
\* if further pages holding more items exist; it returns an item a second
\* time only after SetNextIndex moved the iterator back to it.
C23_AtMostTotalItems ==
    /\ itSeen \subseteq 0..(itTotalItems - 1)
    /\ Cardinality(itSeen) <= itTotalItems
    /\ itReturned <= itTotalItems + itBack
    /\ itLast = "item" => itNumProcessed <= itTotalItems

\* C23 witness: an iterator that was never moved backwards has returned
\* TotalItems() items and refuses the next one although the current page
\* holds more items and a further page exists.
C23_Witness ==
    /\ itBack = 0
    /\ itTotalItems > 0
    /\ itReturned = itTotalItems
    /\ itFetches > 0
    /\ itCurrentIndex < itCurrentLen
    /\ itNextPage
    /\ itLast = "all processed"

\* C37: the processed-item count always equals the number of items that lie
\* before the iterator's current position (all the items of the pages
\* already left plus the current index), after any sequence of Next, NextPage
\* and SetNextIndex calls, including calls that return ErrNotFound or
\* another error.
C37_ProcessedCountIsPosition ==
    itNumProcessed = itPageStart + itCurrentIndex

\* What holds: the count is never below the position, and it equals the
\* position as long as NextPage was not called on the last page.
C37_ProcessedCountAtLeastPosition ==
    itNumProcessed >= itPageStart + itCurrentIndex

\* NextPage was called on the last page with items left on it: they count as
\* processed although the iterator has not moved.
C37_Witness ==
    /\ itLast = "not found"
    /\ ~itNextPage
    /\ itCurrentIndex < itCurrentLen
    /\ itNumProcessed > itPageStart + itCurrentIndex

-----------------------------------------------------------------------------
(***************************************************************************)
(* Observer.postLikeActivity: the Like activities posted after an anchor   *)
(* was processed, and what processAnchor makes of a failure to post them.  *)
(***************************************************************************)

Actors == {"https://actor1", "https://actor2"}
InvalidURL == ":not a url"
ValidHashlink == "hl:h1"
ValidLocalHashlink == "hl:h1:local"

\* url.Parse: the error of a string that is not a URL.
ParseURL(str) == IF str = InvalidURL THEN PlainError ELSE Nil

AnchorInfos ==
    [Hashlink : {ValidHashlink, InvalidURL},
     LocalHashlink : {"", ValidLocalHashlink, InvalidURL},
     AttributedTo : {""} \cup Actors \cup {InvalidURL}]

\* The Like activity doPostLikeActivity posts: to, object (refURL), result.
NewLikeActivity(to, anchor) ==
    [to |-> to, object |-> anchor.Hashlink, result |-> anchor.LocalHashlink]

SameActorNever(attributedTo, originActor) == FALSE

\* postLikeActivity: "Already posted a 'Like' to this actor."
SameActor(attributedTo, originActor) == attributedTo = originActor

LkInit ==
    /\ lkAnchor \in AnchorInfos
    /\ lkPc = "like"
    /\ lkOrigin = ""
    /\ lkLikes = <<>>
    /\ lkErr = Nil
    /\ lkWarned = FALSE
    /\ lkReturn = "none"

\* postLikeActivity returns err to processAnchor.
LkReturns(err) ==
    /\ lkErr' = err
    /\ lkPc' = "returned"

\* postLikeActivity: nothing is posted without an attributedTo ID; the hash
\* link, attributedTo and the local hash link (if any) are parsed as URLs.
LkParse ==
    /\ lkPc = "like"
    /\ IF lkAnchor.AttributedTo = "" THEN LkReturns(Nil)
       ELSE IF ParseURL(lkAnchor.Hashlink) # Nil
         THEN LkReturns(Wrap(ParseURL(lkAnchor.Hashlink)))
       ELSE IF ParseURL(lkAnchor.AttributedTo) # Nil
         THEN LkReturns(Wrap(ParseURL(lkAnchor.AttributedTo)))
       ELSE IF lkAnchor.LocalHashlink # "" /\ ParseURL(lkAnchor.LocalHashlink) # Nil
         THEN LkReturns(Wrap(ParseURL(lkAnchor.LocalHashlink)))
       ELSE lkPc' = "post" /\ UNCHANGED lkErr
    /\ UNCHANGED <<lkAnchor, lkOrigin, lkLikes, lkWarned, lkReturn>>
    /\ UNCHANGED lkOthers

\* doPostLikeActivity(attributedTo, refURL, result), e being its error.
LkPostAttributedTo(e) ==
    /\ lkPc = "post"
    /\ IF e # Nil
       THEN LkReturns(Wrap(e)) /\ UNCHANGED lkLikes
       ELSE /\ lkLikes' = Append(lkLikes, NewLikeActivity(lkAnchor.AttributedTo, lkAnchor))
            /\ lkPc' = "resolve"
            /\ UNCHANGED lkErr
    /\ UNCHANGED <<lkAnchor, lkOrigin, lkWarned, lkReturn>>
    /\ UNCHANGED lkOthers

\* resolveActorFromHashlink(refURL), e being its error and actor its result;
\* the actor that was already sent a Like is not sent another.
LkResolve(actor, e) ==
    /\ lkPc = "resolve"
    /\ IF e # Nil
       THEN LkReturns(Wrap(e)) /\ UNCHANGED lkOrigin
       ELSE /\ lkOrigin' = actor
            /\ IF SameActor(lkAnchor.AttributedTo, actor)
               THEN LkReturns(Nil)
               ELSE lkPc' = "post origin" /\ UNCHANGED lkErr
    /\ UNCHANGED <<lkAnchor, lkLikes, lkWarned, lkReturn>>
    /\ UNCHANGED lkOthers

\* doPostLikeActivity(originActor, refURL, result), e being its error.
LkPostOrigin(e) ==
    /\ lkPc = "post origin"
    /\ IF e # Nil
       THEN LkReturns(Wrap(e)) /\ UNCHANGED lkLikes
       ELSE /\ lkLikes' = Append(lkLikes, NewLikeActivity(lkOrigin, lkAnchor))
            /\ LkReturns(Nil)
    /\ UNCHANGED <<lkAnchor, lkOrigin, lkWarned, lkReturn>>
    /\ UNCHANGED lkOthers

\* processAnchor: an error of postLikeActivity is logged as a warning, and
\* processAnchor returns nil.
LkProcessAnchorReturns ==
    /\ lkPc = "returned"
    /\ lkWarned' = (lkErr # Nil)
    /\ lkReturn' = IF LikeOutcome(lkErr) = Nil THEN "nil" ELSE "error"
    /\ lkPc' = "done"
    /\ UNCHANGED <<lkAnchor, lkOrigin, lkLikes, lkErr>>
    /\ UNCHANGED lkOthers

LkNext ==
    \/ LkParse
    \/ \E e \in Failures \cup {Nil} : LkPostAttributedTo(e)
    \/ \E actor \in Actors, e \in Failures \cup {Nil} : LkResolve(actor, e)
    \/ \E e \in Failures \cup {Nil} : LkPostOrigin(e)
    \/ LkProcessAnchorReturns

\* The actors that were sent a Like, and the number of Likes an actor was sent.
LikedActors == {lkLikes[i].to : i \in DOMAIN lkLikes}
LikesTo(actor) == Cardinality({i \in DOMAIN lkLikes : lkLikes[i].to = actor})

\* C24 (as stated): after an anchor is processed a Like is posted to
\* attributedTo if and only if attributedTo is non-empty, and a second Like
\* is posted to the resolved author if and only if that actor differs from
\* attributedTo; no actor receives two Likes for the same anchor.
C24_Original ==
    lkPc = "done" =>
        /\ (lkAnchor.AttributedTo \in LikedActors) <=> (lkAnchor.AttributedTo # "")
        /\ lkAnchor.AttributedTo # "" /\ lkOrigin # "" =>
              ((Len(lkLikes) = 2 /\ lkLikes[2].to = lkOrigin)
                  <=> (lkOrigin # lkAnchor.AttributedTo))
        /\ \A actor \in Actors : LikesTo(actor) <= 1

\* C24 (amended): after an anchor is processed a Like is posted to
\* attributedTo if and only if attributedTo is non-empty, it and the hash
\* links of the anchor are URLs, and the post succeeds; a second Like is
\* posted to the anchor's resolved author if and only if the first Like was
\* posted, the author was resolved, it differs from attributedTo, and the
\* post succeeds.  Nothing is posted after the first failure, and no actor
\* receives two Likes for the same anchor.
C24_LikesPosted ==
    lkPc = "done" =>
        /\ lkAnchor.AttributedTo = "" => lkLikes = <<>> /\ lkErr = Nil
        /\ lkLikes # <<>> =>
              /\ lkLikes[1] = NewLikeActivity(lkAnchor.AttributedTo, lkAnchor)
              /\ lkAnchor.AttributedTo \in Actors
        /\ (lkAnchor.AttributedTo # "" /\ lkLikes = <<>>) => lkErr # Nil
        /\ Len(lkLikes) <= 2
        /\ Len(lkLikes) = 2 =>
              /\ lkLikes[2] = NewLikeActivity(lkOrigin, lkAnchor)
              /\ lkOrigin \in Actors
              /\ lkOrigin # lkAnchor.AttributedTo
        /\ (Len(lkLikes) = 1 /\ lkErr = Nil) => lkOrigin = lkAnchor.AttributedTo
        /\ \A actor \in Actors : LikesTo(actor) <= 1

\* C24 witnesses: two Likes were posted for an anchor whose author differs
\* from attributedTo.
C24_Witness ==
    /\ lkPc = "done"
    /\ Len(lkLikes) = 2
    /\ lkOrigin # lkAnchor.AttributedTo
    /\ lkErr = Nil

-----------------------------------------------------------------------------
(***************************************************************************)
(* amqp publisherPool: the publishers of the pool are used round-robin.    *)
(***************************************************************************)

MaxPoolSize == 4
MaxChannelsPerConn == 2
NumPublishCallers == 2
MaxPublishCalls == 7
MaxCounter == 8

PublishCallers == 1..NumPublishCallers

\* createPublishers: the number of publishers (connections) of the pool.
NumPublishers(channelPoolSize, maxChannelsPerConn) ==
    IF channelPoolSize = 0 THEN 1
    ELSE (channelPoolSize \div maxChannelsPerConn)
            + (IF channelPoolSize % maxChannelsPerConn > 0 THEN 1 ELSE 0)

RoundRobinMaxTooSmall(numPublishers) == numPublishers - 2

\* newPublisherPool: lb := newRoundRobin(len(publishers) - 1)
RoundRobinMax(numPublishers) == numPublishers - 1

MaxInt32 == 2147483647

\* atomic.AddInt32(&r.current, 1), which wraps round
AddInt32(x) == IF x = MaxInt32 THEN (0 - MaxInt32) - 1 ELSE x + 1

RrInit ==
    /\ \E size \in 0..MaxPoolSize, perConn \in 1..MaxChannelsPerConn :
          rrPublishers = NumPublishers(size, perConn)
    /\ rrCurrent = 0
    /\ rrPc = [c \in PublishCallers |-> "idle"]
    /\ rrI = [c \in PublishCallers |-> 0]
    /\ rrLog = <<>>
    /\ rrOverlap = FALSE
    /\ rrCalls = 0

\* publishers[i].Publish(topic, messages...) by caller c, which then returns.
UsePublisher(c, i) ==
    /\ rrLog' = Append(rrLog, i)
    /\ rrPc' = [rrPc EXCEPT ![c] = "idle"]

\* publisherPool.Publish: with one publisher it is used directly; otherwise
\* nextIndex is called.
PoolPublish(c) ==
    /\ rrPc[c] = "idle"
    /\ rrCalls < MaxPublishCalls
    /\ rrCalls' = rrCalls + 1
    /\ rrOverlap' = (rrOverlap \/ \E d \in PublishCallers \ {c} : rrPc[d] # "idle")
    /\ IF rrPublishers = 1
       THEN UsePublisher(c, 0)
       ELSE rrPc' = [rrPc EXCEPT ![c] = "add"] /\ UNCHANGED rrLog
    /\ UNCHANGED <<rrPublishers, rrCurrent, rrI>>
    /\ UNCHANGED rrOthers

\* nextIndex: i := atomic.AddInt32(&r.current, 1); an i within the range is
\* the index.
NextIndexAdd(c) ==
    /\ rrPc[c] = "add"
    /\ rrCurrent < MaxCounter
    /\ rrCurrent' = AddInt32(rrCurrent)
    /\ rrI' = [rrI EXCEPT ![c] = AddInt32(rrCurrent)]
    /\ IF AddInt32(rrCurrent) > RoundRobinMax(rrPublishers)
       THEN rrPc' = [rrPc EXCEPT ![c] = "cas"] /\ UNCHANGED rrLog
       ELSE UsePublisher(c, AddInt32(rrCurrent))
    /\ UNCHANGED <<rrPublishers, rrOverlap, rrCalls>>
    /\ UNCHANGED rrOthers

\* nextIndex: atomic.CompareAndSwapInt32(&r.current, i, 0); on success the
\* index is 0, otherwise the loop starts again.
NextIndexCompareAndSwap(c) ==
    /\ rrPc[c] = "cas"
    /\ IF rrCurrent = rrI[c]
       THEN /\ rrCurrent' = 0
            /\ rrI' = [rrI EXCEPT ![c] = 0]
            /\ UsePublisher(c, 0)
       ELSE /\ rrPc' = [rrPc EXCEPT ![c] = "add"]
            /\ UNCHANGED <<rrCurrent, rrI, rrLog>>
    /\ UNCHANGED <<rrPublishers, rrOverlap, rrCalls>>
    /\ UNCHANGED rrOthers

RrNext ==
    \E c \in PublishCallers :
        \/ PoolPublish(c)
        \/ NextIndexAdd(c)
        \/ NextIndexCompareAndSwap(c)

\* C26: with n publishers and sequential Publish calls (no call begins while
\* another is in progress), every window of n consecutive calls uses each
\* publisher exactly once.
C26_RoundRobin ==
    ~rrOverlap =>
        \A k \in 1..(Len(rrLog) - rrPublishers + 1) :
            /\ {rrLog[j] : j \in k..(k + rrPublishers - 1)} = 0..(rrPublishers - 1)
            /\ \A i, j \in k..(k + rrPublishers - 1) : i # j => rrLog[i] # rrLog[j]

\* C26 witness: seven sequential calls went through a pool of three
\* publishers, the counter having wrapped round twice.
C26_Witness ==
    /\ ~rrOverlap
    /\ rrPublishers = 3
    /\ rrLog = <<1, 2, 0, 1, 2, 0, 1>>

-----------------------------------------------------------------------------
(***************************************************************************)
(* didanchor.Store: PutBulk and Get over a storage back-end that may fail. *)
(***************************************************************************)

MaxStoreCalls == 2

\* The failures the storage may answer a call with.
StorageFailures ==
    {PlainError, ErrDuplicateKey, Wrap(ErrDuplicateKey),
     Wrap(StorageErrDataNotFound)}

NoStoreCall ==
    [op |-> "none", keys |-> {}, newKeys |-> {}, cid |-> NoAnchor, e1 |-> Nil, e2 |-> Nil,
     before |-> [s \in Suffixes |-> NoAnchor], err |-> Nil, batches |-> <<>>,
     value |-> NoAnchor]

DsInit ==
    /\ dsIndex \in [Suffixes -> {NoAnchor} \cup Anchors]
    /\ dsLast = NoStoreCall
    /\ dsCalls = 0

\* Store.PutBulk(suffixes, areNew, cid); the storage fails the first batch
\* with e1 and the second with e2 (Nil: it does not fail).
DsPutBulk(keys, newKeys, cid, e1, e2) ==
    /\ dsCalls < MaxStoreCalls
    /\ dsCalls' = dsCalls + 1
    /\ newKeys \subseteq keys
    /\ LET res == StorePutBulk(dsIndex, keys, newKeys, cid, e1, e2)
       IN  /\ e2 # Nil => Len(res[3]) = 2
           /\ dsIndex' = res[1]
           /\ dsLast' = [op |-> "PutBulk", keys |-> keys, newKeys |-> newKeys,
                         cid |-> cid, e1 |-> e1, e2 |-> e2, before |-> dsIndex,
                         err |-> res[2], batches |-> res[3], value |-> NoAnchor]
    /\ UNCHANGED dsOthers

\* Store.Get(suffix); the storage fails with e (Nil: it does not fail).
DsGet(key, e) ==
    /\ dsCalls < MaxStoreCalls
    /\ dsCalls' = dsCalls + 1
    /\ LET res == StoreGet(dsIndex, key, e)
       IN  dsLast' = [op |-> "Get", keys |-> {key}, newKeys |-> {}, cid |-> NoAnchor,
                      e1 |-> e, e2 |-> Nil, before |-> dsIndex, err |-> res[2],
                      batches |-> <<>>, value |-> res[1]]
    /\ UNCHANGED dsIndex
    /\ UNCHANGED dsOthers

DsNext ==
    \/ \E keys \in SUBSET Suffixes, newKeys \in SUBSET Suffixes, cid \in Anchors,
          e1 \in StorageFailures \cup {Nil}, e2 \in StorageFailures \cup {Nil} :
            DsPutBulk(keys, newKeys, cid, e1, e2)
    \/ \E key \in Suffixes, e \in StorageFailures \cup {Nil} : DsGet(key, e)

\* The first batch of the last PutBulk was rejected with a duplicate-key
\* error: by the storage itself, because a key hinted as new exists, or as
\* the failure e1.
FirstBatchRejectedAsDuplicate ==
    /\ dsLast.op = "PutBulk"
    /\ dsLast.keys # {}
    /\ \/ ErrorsIs(dsLast.e1, ErrDuplicateKey)
       \/ dsLast.e1 = Nil /\ \E k \in dsLast.newKeys : dsLast.before[k] # NoAnchor

\* The index after every key of the last PutBulk was given its value.
AllWritten ==
    [k \in Suffixes |-> IF k \in dsLast.keys THEN dsLast.cid ELSE dsLast.before[k]]

\* C27: when the back-end rejects PutBulk's batch with a duplicate-key error,
\* PutBulk retries exactly once with the same keys and values but without
\* the IsNewKey hints, and succeeds if and only if that retry succeeds; no
\* other failure is retried.
C27_RetryOnceOnDuplicateKey ==
    (dsLast.op = "PutBulk" /\ dsLast.keys # {}) =>
        /\ dsLast.batches[1] = BatchCall(dsLast.keys, dsLast.newKeys, dsLast.cid)
        /\ FirstBatchRejectedAsDuplicate =>
              /\ Len(dsLast.batches) = 2
              /\ dsLast.batches[2] = BatchCall(dsLast.keys, {}, dsLast.cid)
              /\ (dsLast.err = Nil) <=> (dsLast.e2 = Nil)
              /\ dsLast.err = Nil => dsIndex = AllWritten
              /\ dsLast.err # Nil => IsTransient(dsLast.err) /\ dsIndex = dsLast.before
        /\ ~FirstBatchRejectedAsDuplicate =>
              /\ Len(dsLast.batches) = 1
              /\ (dsLast.err = Nil) <=> (dsLast.e1 = Nil)
              /\ dsLast.err # Nil => IsTransient(dsLast.err) /\ dsIndex = dsLast.before

\* C27 witness: the storage rejected a batch that hinted an existing key as
\* new, and the retry without the hints wrote both keys.
C27_Witness ==
    /\ FirstBatchRejectedAsDuplicate
    /\ dsLast.e1 = Nil
    /\ dsLast.keys = Suffixes
    /\ Len(dsLast.batches) = 2
    /\ dsLast.err = Nil
    /\ dsIndex = AllWritten
    /\ dsIndex # dsLast.before

\* The storage reported the key of the last Get as absent.
ReportedAbsent ==
    /\ dsLast.op = "Get"
    /\ \/ dsLast.e1 = Nil /\ \E k \in dsLast.keys : dsLast.before[k] = NoAnchor
       \/ ErrorsIs(dsLast.e1, StorageErrDataNotFound)

\* C28: a lookup of a key that the underlying store reports as absent is
\* returned as the domain not-found error (DataNotFound), which is not a
\* transient error, and every other failure of the underlying store is
\* returned as a transient error.
C28_GetErrors ==
    dsLast.op = "Get" =>
        /\ ReportedAbsent => dsLast.err = ErrDataNotFound /\ ~IsTransient(dsLast.err)
        /\ (dsLast.e1 # Nil /\ ~ReportedAbsent) =>
              IsTransient(dsLast.err) /\ ErrorsIs(dsLast.err, dsLast.e1)
        /\ (dsLast.e1 = Nil /\ ~ReportedAbsent) =>
              /\ dsLast.err = Nil
              /\ \A k \in dsLast.keys : dsLast.value = dsLast.before[k]

\* C28 witness: a Get of an absent key of a store that holds another key.
C28_Witness ==
    /\ ReportedAbsent
    /\ dsLast.e1 = Nil
    /\ dsLast.err = ErrDataNotFound
    /\ \E k \in Suffixes : dsIndex[k] # NoAnchor

-----------------------------------------------------------------------------
(***************************************************************************)
(* Unpublished operation store: Put, Get by suffix, Delete.                *)
(***************************************************************************)

MaxUnpublishedCalls == 3
Lifespan == 2

\* The most seconds the clock advances between two readings of it.
MaxClockStep == 1

OperationRequests == {"req1", "req2", "req3"}

\* operation.AnchoredOperation: UniqueSuffix and OperationRequest
AnchoredOperations == [UniqueSuffix : Suffixes \cup {""}, OperationRequest : OperationRequests]

\* hashing.CalculateModelMultihash(op.OperationRequest, sha2_256)
CalculateModelMultihash(request) == <<"sha2-256", request>>

\* json.Marshal(&operationWrapper{op, ExpirationTime})
MarshalOperation(op, expirationTime) ==
    [uniqueSuffix |-> op.UniqueSuffix, operationRequest |-> op.OperationRequest,
     expirationTime |-> expirationTime]

\* json.Unmarshal(value, &op), op being an AnchoredOperation
UnmarshalOperation(value) ==
    [UniqueSuffix |-> value.uniqueSuffix, OperationRequest |-> value.operationRequest]

ErrSuffixNotFound == <<"suffix not found in the unpublished operation store">>

\* Store.Get's error when no operation matched: a new error made of the
\* message alone, wrapping nothing.
GetNothingFound == ErrSuffixNotFound

\* The steps of Get at which the storage may fail.
GetFailurePoints == {"none", "query", "first next", "value", "unmarshal", "next"}

\* Store.Get(suffix): <<operations, err>>; the storage fails at step failAt.
UnpublishedGet(entries, suffix, failAt) ==
    LET matching == {e \in entries : e.tag = suffix}
        ops == {UnmarshalOperation(e.value) : e \in matching}
    IN  IF failAt = "query" THEN <<{}, Wrap(PlainError)>>
        ELSE IF failAt = "first next" THEN <<{}, Wrap(PlainError)>>
        ELSE IF matching # {} /\ failAt \in {"value", "unmarshal"}
          THEN <<{}, Wrap(PlainError)>>
        ELSE IF matching # {} /\ failAt = "next"
          THEN <<{}, NewTransient(Wrap(PlainError))>>
        ELSE IF ops = {} THEN <<{}, GetNothingFound>>
        ELSE <<ops, Nil>>

NoUnpublishedCall ==
    [op |-> "none", suffix |-> "", failAt |-> "none", before |-> {}, ops |-> {},
     err |-> Nil]

UpInit ==
    /\ upStore = {}
    /\ upLast = NoUnpublishedCall
    /\ upCalls = 0
    /\ upNow = 0

\* time.Now().Add(s.unpublishedOperationLifespan).Unix(), the clock reading
\* seconds.
ExpirationAt(seconds) == seconds + Lifespan

\* Store.Put(op): an operation with the same key is overwritten.  Put reads
\* the clock for the expiration time of the value and reads it again for
\* the expirationTime tag; the clock has advanced elapsed seconds in between.
UpPut(op, e, elapsed) ==
    /\ upCalls < MaxUnpublishedCalls
    /\ upCalls' = upCalls + 1
    /\ LET key == CalculateModelMultihash(op.OperationRequest)
           err == IF op.UniqueSuffix = "" THEN PlainError
                  ELSE IF e # Nil THEN Wrap(e) ELSE Nil
           opBytes == MarshalOperation(op, ExpirationAt(upNow))
           expiryTag == ExpirationAt(upNow + elapsed)
       IN  /\ upStore' = IF err # Nil THEN upStore
                         ELSE {x \in upStore : x.key # key}
                                \cup {[key |-> key, value |-> opBytes,
                                       tag |-> op.UniqueSuffix,
                                       expirationTime |-> expiryTag]}
           /\ upNow' = IF op.UniqueSuffix = "" THEN upNow ELSE upNow + elapsed
           /\ upLast' = [op |-> "Put", suffix |-> op.UniqueSuffix, failAt |-> "none",
                         before |-> upStore, ops |-> {op}, err |-> err]
    /\ UNCHANGED upOthers

\* Store.Get(suffix)
UpGet(suffix, failAt) ==
    /\ upCalls < MaxUnpublishedCalls
    /\ upCalls' = upCalls + 1
    /\ failAt \in {"value", "unmarshal", "next"} => \E e \in upStore : e.tag = suffix
    /\ LET res == UnpublishedGet(upStore, suffix, failAt)
       IN  upLast' = [op |-> "Get", suffix |-> suffix, failAt |-> failAt,
                      before |-> upStore, ops |-> res[1], err |-> res[2]]
    /\ UNCHANGED <<upStore, upNow>>
    /\ UNCHANGED upOthers

\* Store.Delete(op)
UpDelete(op, e) ==
    /\ upCalls < MaxUnpublishedCalls
    /\ upCalls' = upCalls + 1
    /\ LET key == CalculateModelMultihash(op.OperationRequest)
       IN  /\ upStore' = IF e # Nil THEN upStore ELSE {x \in upStore : x.key # key}
           /\ upLast' = [op |-> "Delete", suffix |-> op.UniqueSuffix, failAt |-> "none",
                         before |-> upStore, ops |-> {op},
                         err |-> IF e # Nil THEN Wrap(e) ELSE Nil]
    /\ UNCHANGED upNow
    /\ UNCHANGED upOthers

UpNext ==
    \/ \E op \in AnchoredOperations, e \in {Nil, PlainError}, elapsed \in 0..MaxClockStep :
          UpPut(op, e, elapsed)
    \/ \E suffix \in Suffixes, failAt \in GetFailurePoints : UpGet(suffix, failAt)
    \/ \E op \in AnchoredOperations, e \in {Nil, PlainError} : UpDelete(op, e)

\* The operations stored for the suffix of the last Get.
StoredForSuffix ==
    {op \in AnchoredOperations :
        /\ op.UniqueSuffix = upLast.suffix
        /\ \E e \in upLast.before :
              e.key = CalculateModelMultihash(op.OperationRequest) /\ e.tag = op.UniqueSuffix}

\* C29: Get(suffix) of the unpublished operation store, when the storage
\* does not fail, either returns all the operations stored for the suffix
\* or, when none is stored, fails with the domain DataNotFound error.
C29_GetAllOrDataNotFound ==
    (upLast.op = "Get" /\ upLast.failAt = "none") =>
        /\ StoredForSuffix # {} => upLast.ops = StoredForSuffix /\ upLast.err = Nil
        /\ StoredForSuffix = {} => ErrorsIs(upLast.err, ErrDataNotFound)

\* What Get does: all the operations stored for the suffix, or an error that
\* is neither nil nor transient.
C29_GetAllOrError ==
    (upLast.op = "Get" /\ upLast.failAt = "none") =>
        /\ StoredForSuffix # {} => upLast.ops = StoredForSuffix /\ upLast.err = Nil
        /\ StoredForSuffix = {} =>
              upLast.ops = {} /\ upLast.err = ErrSuffixNotFound /\ IsPermanent(upLast.err)

\* Two operations were stored for a suffix and Get returned both.
C29_Witness ==
    /\ upLast.op = "Get"
    /\ upLast.failAt = "none"
    /\ Cardinality(upLast.ops) = 2
    /\ upLast.ops = StoredForSuffix

\* C40: for every unpublished operation written by Put, the expiration time
\* inside the stored value equals the value of the entry's expirationTime
\* tag, whatever the clock does while Put runs.
C40_ExpirationTimeMatchesTag ==
    \A x \in upStore : x.value.expirationTime = x.expirationTime

\* What Put guarantees: the tag is never earlier than the expiration time
\* in the value, and later by no more than the clock advanced between the
\* two readings.
C40_TagNotBeforeValue ==
    \A x \in upStore :
        /\ x.expirationTime >= x.value.expirationTime
        /\ x.expirationTime - x.value.expirationTime <= MaxClockStep

\* Put has written an entry while the clock advanced between its two
\* readings.
C40_Witness ==
    /\ upLast.op = "Put"
    /\ upLast.err = Nil
    /\ \E x \in upStore : x.expirationTime > x.value.expirationTime

-----------------------------------------------------------------------------
(***************************************************************************)
(* ActivityPub client: GetActor, GetReferences and GetActivities, all      *)
(* reading through Client.get.                                             *)
(***************************************************************************)

MaxClientCalls == 2

StatusOK == 200
StatusInternalServerError == 500

IRIs == {"https://domain1/services/orb", "https://domain2/services/orb"}

StatusCodes == {200, 201, 301, 400, 401, 404, 429, 499, 500, 502, 503}

\* What the transport does with a request: it fails, or it answers with a
\* status code and a body that can or cannot be read and parsed.
TransportError == [transportFails |-> TRUE, status |-> 0, readFails |-> FALSE, valid |-> FALSE]

HTTPResponses ==
    {TransportError}
      \cup {[transportFails |-> FALSE, status |-> c, readFails |-> FALSE, valid |-> FALSE] :
                c \in StatusCodes}
      \cup {[transportFails |-> FALSE, status |-> StatusOK, readFails |-> r, valid |-> v] :
                r \in BOOLEAN, v \in BOOLEAN}

\* Client.get: the error it returns for the response.
ClientGet(resp) ==
    IF resp.transportFails THEN NewTransient(Wrap(PlainError))
    ELSE IF resp.status # StatusOK
      THEN IF resp.status >= StatusInternalServerError
             THEN NewTransient(PlainError)
             ELSE PlainError
    ELSE IF resp.readFails THEN NewTransient(Wrap(PlainError))
    ELSE Nil

\* A caller of get: the error of get is wrapped, a body that does not
\* parse is a failure of its own.
ReadThroughGet(resp) ==
    LET getErr == ClientGet(resp)
    IN  IF getErr # Nil THEN Wrap(getErr)
        ELSE IF ~resp.valid THEN Wrap(PlainError)
        ELSE Nil

NoClientCall ==
    [op |-> "none", iri |-> "", requested |-> FALSE, resp |-> TransportError,
     getErr |-> Nil, err |-> Nil]

ApInit ==
    /\ apActorCache = {}
    /\ apLast = NoClientCall
    /\ apCalls = 0

ClientCall(op, iri, resp) ==
    [op |-> op, iri |-> iri, requested |-> TRUE, resp |-> resp,
     getErr |-> ClientGet(resp), err |-> ReadThroughGet(resp)]

\* Client.GetActor on a cache miss: loadActor; the actor is cached on success.
GetActorMiss(iri, resp) ==
    /\ apCalls < MaxClientCalls
    /\ iri \notin apActorCache
    /\ apCalls' = apCalls + 1
    /\ apLast' = ClientCall("GetActor", iri, resp)
    /\ apActorCache' = IF ReadThroughGet(resp) = Nil THEN apActorCache \cup {iri}
                       ELSE apActorCache
    /\ UNCHANGED apOthers

\* Client.GetActor on a cache hit: no request is made.
GetActorHit(iri) ==
    /\ apCalls < MaxClientCalls
    /\ iri \in apActorCache
    /\ apCalls' = apCalls + 1
    /\ apLast' = [NoClientCall EXCEPT !.op = "GetActor", !.iri = iri]
    /\ UNCHANGED apActorCache
    /\ UNCHANGED apOthers

\* Client.GetReferences
GetReferences(iri, resp) ==
    /\ apCalls < MaxClientCalls
    /\ apCalls' = apCalls + 1
    /\ apLast' = ClientCall("GetReferences", iri, resp)
    /\ UNCHANGED apActorCache
    /\ UNCHANGED apOthers

\* Client.GetActivities: a failure to parse the body is returned as it is.
GetActivities(iri, resp) ==
    /\ apCalls < MaxClientCalls
    /\ apCalls' = apCalls + 1
    /\ apLast' = [ClientCall("GetActivities", iri, resp) EXCEPT
                     !.err = IF ClientGet(resp) # Nil THEN Wrap(ClientGet(resp))
                             ELSE IF ~resp.valid THEN PlainError ELSE Nil]
    /\ UNCHANGED apActorCache
    /\ UNCHANGED apOthers

ApNext ==
    \/ \E iri \in IRIs, resp \in HTTPResponses : GetActorMiss(iri, resp)
    \/ \E iri \in IRIs : GetActorHit(iri)
    \/ \E iri \in IRIs, resp \in HTTPResponses : GetReferences(iri, resp)
    \/ \E iri \in IRIs, resp \in HTTPResponses : GetActivities(iri, resp)

\* The last call made a request and the server answered with this status.
Answered(status) ==
    apLast.requested /\ ~apLast.resp.transportFails /\ apLast.resp.status = status

\* C30: the ActivityPub client classifies failures as follows: transport
\* errors and 5xx responses are transient; 4xx responses are permanent,
\* except 429, which is transient.
C30_FailureClassification ==
    /\ (apLast.requested /\ apLast.resp.transportFails) =>
          IsTransient(apLast.getErr) /\ IsTransient(apLast.err)
    /\ \A c \in StatusCodes : Answered(c) =>
          /\ c >= 500 => IsTransient(apLast.getErr) /\ IsTransient(apLast.err)
          /\ (c >= 400 /\ c < 500 /\ c # 429) =>
                IsPermanent(apLast.getErr) /\ IsPermanent(apLast.err)
          /\ c = 429 =>
                IsTransient(apLast.getErr) /\ IsTransient(apLast.err)

\* What the client does: transport errors and 5xx responses are transient,
\* every 4xx response, 429 included, is permanent.
C30_Every4xxPermanent ==
    /\ (apLast.requested /\ apLast.resp.transportFails) =>
          IsTransient(apLast.getErr) /\ IsTransient(apLast.err)
    /\ \A c \in StatusCodes : Answered(c) =>
          /\ c >= 500 => IsTransient(apLast.getErr) /\ IsTransient(apLast.err)
          /\ (c >= 400 /\ c < 500) =>
                IsPermanent(apLast.getErr) /\ IsPermanent(apLast.err)

\* The server answered 429 and the client returned an error.
C30_Witness ==
    /\ Answered(429)
    /\ apLast.err # Nil

-----------------------------------------------------------------------------
(***************************************************************************)
(* Reads of the activity store through the REST handlers: outbox, inbox    *)
(* and activity by ID, with and without authorization.                     *)
(***************************************************************************)

MaxAuthCalls == 4

ActivityIDs == {"activity1", "activity2", "activity3"}

\* vocab.PublicIRI
PublicIRI == "https://www.w3.org/ns/activitystreams#Public"

Recipients == {PublicIRI, "https://example1.com/services/orb"}

NotStored == {"not stored"}

IsPublic(to) == PublicIRI \in to

\* The outcome of the authorization of a read: an endpoint for which no
\* token is required is open; otherwise the signature of the request decides.
Authorize(tokenRequired, verified, verifyFails) ==
    IF ~tokenRequired THEN "authorized"
    ELSE IF verifyFails THEN "error"
    ELSE IF verified THEN "authorized"
    ELSE "unauthorized"

\* Mutant of OutboxReferences: every reader is served the whole outbox.
OutboxReferencesAll(auth) == auOutbox

\* The references the outbox handler serves.
OutboxReferences(auth) == IF auth = "authorized" THEN auOutbox ELSE auPublicOutbox

NoRead ==
    [handler |-> "none", id |-> "", to |-> NotStored, auth |-> "authorized", status |-> 0,
     items |-> {}]

AuInit ==
    /\ auActivities = [id \in ActivityIDs |-> NotStored]
    /\ auOutbox = {}
    /\ auPublicOutbox = {}
    /\ auInbox = {}
    /\ auLast = NoRead
    /\ auCalls = 0

\* An activity is posted to the outbox: it is stored and referenced by the
\* outbox and, when it is addressed to the public, by the public outbox.
PostToOutbox(id, to) ==
    /\ auCalls < MaxAuthCalls
    /\ auActivities[id] = NotStored
    /\ auCalls' = auCalls + 1
    /\ auActivities' = [auActivities EXCEPT ![id] = to]
    /\ auOutbox' = auOutbox \cup {id}
    /\ auPublicOutbox' = IF IsPublic(to) THEN auPublicOutbox \cup {id} ELSE auPublicOutbox
    /\ UNCHANGED <<auInbox, auLast>>
    /\ UNCHANGED auOthers

\* An activity is received in the inbox.
ReceiveInInbox(id, to) ==
    /\ auCalls < MaxAuthCalls
    /\ auActivities[id] = NotStored
    /\ auCalls' = auCalls + 1
    /\ auActivities' = [auActivities EXCEPT ![id] = to]
    /\ auInbox' = auInbox \cup {id}
    /\ UNCHANGED <<auOutbox, auPublicOutbox, auLast>>
    /\ UNCHANGED auOthers

Respond(handler, id, auth, status, items) ==
    /\ auCalls < MaxAuthCalls
    /\ auCalls' = auCalls + 1
    /\ auLast' = [handler |-> handler, id |-> id,
                  to |-> IF id = "" THEN NotStored ELSE auActivities[id],
                  auth |-> auth, status |-> status, items |-> items]
    /\ UNCHANGED <<auActivities, auOutbox, auPublicOutbox, auInbox>>
    /\ UNCHANGED auOthers

\* ReadOutbox.handleOutbox
HandleOutbox(tokenRequired, verified, verifyFails) ==
    LET auth == Authorize(tokenRequired, verified, verifyFails)
    IN  IF auth = "error" THEN Respond("outbox", "", auth, 500, {})
        ELSE Respond("outbox", "", auth, 200, OutboxReferences(auth))

\* Activities.handle of the inbox
HandleInbox(tokenRequired, verified, verifyFails) ==
    LET auth == Authorize(tokenRequired, verified, verifyFails)
    IN  IF auth = "error" THEN Respond("inbox", "", auth, 500, {})
        ELSE IF auth = "unauthorized" THEN Respond("inbox", "", auth, 401, {})
        ELSE Respond("inbox", "", auth, 200, auInbox)

\* Activity.handle: the activity with the ID of the request
HandleActivity(id, tokenRequired, verified, verifyFails) ==
    LET auth == Authorize(tokenRequired, verified, verifyFails)
    IN  IF auActivities[id] = NotStored THEN Respond("activity", id, auth, 404, {})
        ELSE IF auth = "error" THEN Respond("activity", id, auth, 500, {})
        ELSE IF auth = "unauthorized" /\ ~IsPublic(auActivities[id])
          THEN Respond("activity", id, auth, 401, {})
        ELSE Respond("activity", id, auth, 200, {id})

AuNext ==
    \/ \E id \in ActivityIDs, to \in SUBSET Recipients : PostToOutbox(id, to)
    \/ \E id \in ActivityIDs, to \in SUBSET Recipients : ReceiveInInbox(id, to)
    \/ \E t, v, f \in BOOLEAN : HandleOutbox(t, v, f)
    \/ \E t, v, f \in BOOLEAN : HandleInbox(t, v, f)
    \/ \E id \in ActivityIDs, t, v, f \in BOOLEAN : HandleActivity(id, t, v, f)

-----------------------------------------------------------------------------
(***************************************************************************)
(* Scoped resources: the iterator of the unpublished operation store's     *)
(* Get, the response body of the ActivityPub client's get and the reader   *)
(* of the IPFS client's get.                                               *)
(***************************************************************************)

MaxResourceCalls == 4

ResourceKinds == {"iterator", "body", "reader"}

Acquire(kind) == <<"acquire", kind>>
Release(kind) == <<"release", kind>>

\* Store.Get of the unpublished operation store: Query returns the iterator
\* unless it fails; no statement of Get closes it.
StoreGetEvents(failAt) ==
    IF failAt = "query" THEN <<>> ELSE <<Acquire("iterator")>>

\* Client.get of the ActivityPub client: the body of a response is closed by
\* the deferred function, whatever follows.
ClientGetEvents(resp) ==
    IF resp.transportFails THEN <<>> ELSE <<Acquire("body"), Release("body")>>

\* The outcomes of ipfs.Cat and of reading what it returns.
CatOutcomes == {"cat fails", "deadline exceeded", "read fails", "null", "content"}

\* Client.get of the IPFS client: the error it returns.
IpfsGet(outcome) ==
    IF outcome = "deadline exceeded" THEN Wrap(ErrContentNotFound)
    ELSE IF outcome = "cat fails" THEN NewTransient(Wrap(PlainError))
    ELSE IF outcome = "read fails" THEN Wrap(PlainError)
    ELSE IF outcome = "null" THEN NewTransient(ErrContentNotFound)
    ELSE Nil

\* Client.get of the IPFS client: the reader is closed by the deferred
\* closeAndLog once Cat has returned it.
IpfsGetEvents(outcome) ==
    IF outcome \in {"cat fails", "deadline exceeded"} THEN <<>>
    ELSE <<Acquire("reader"), Release("reader")>>

\* How many resources of the kind the events leave open.
LeftOpen(events, kind) ==
    Cardinality({n \in 1..Len(events) : events[n] = Acquire(kind)})
      - Cardinality({n \in 1..Len(events) : events[n] = Release(kind)})

RcInit ==
    /\ rcOpen = [k \in ResourceKinds |-> 0]
    /\ rcLast = [op |-> "none", err |-> Nil, events |-> <<>>]
    /\ rcCalls = 0

Returned(op, err, events) ==
    /\ rcCalls < MaxResourceCalls
    /\ rcCalls' = rcCalls + 1
    /\ rcLast' = [op |-> op, err |-> err, events |-> events]
    /\ rcOpen' = [k \in ResourceKinds |-> rcOpen[k] + LeftOpen(events, k)]
    /\ UNCHANGED rcOthers

\* A call of Store.Get of the unpublished operation store.
RcStoreGet(entries, suffix, failAt) ==
    /\ failAt \in {"value", "unmarshal", "next"} => \E e \in entries : e.tag = suffix
    /\ Returned("Store.Get", UnpublishedGet(entries, suffix, failAt)[2],
                StoreGetEvents(failAt))

\* A call of Client.get of the ActivityPub client.
RcClientGet(resp) ==
    Returned("Client.get", ClientGet(resp), ClientGetEvents(resp))

\* A call of Client.get of the IPFS client.
RcIpfsGet(outcome) ==
    Returned("ipfs.get", IpfsGet(outcome), IpfsGetEvents(outcome))

StoredEntries ==
    {{}, {[key |-> CalculateModelMultihash("req1"),
           value |-> MarshalOperation([UniqueSuffix |-> "s1", OperationRequest |-> "req1"],
                                      Lifespan),
           tag |-> "s1", expirationTime |-> Lifespan]}}

RcNext ==
    \/ \E entries \in StoredEntries, suffix \in Suffixes, failAt \in GetFailurePoints :
          RcStoreGet(entries, suffix, failAt)
    \/ \E resp \in HTTPResponses : RcClientGet(resp)
    \/ \E outcome \in CatOutcomes : RcIpfsGet(outcome)

\* C32: every scoped resource (store iterator, HTTP response body, IPFS
\* reader) is released on the success path and on every error path of the
\* operation that acquired it: no resource is open once the operation returned.
C32_ResourcesReleased ==
    \A k \in ResourceKinds : rcOpen[k] = 0

\* What holds: the response body and the IPFS reader are released on every
\* path; the iterator of Store.Get is released on none.
C32_BodyAndReaderReleased ==
    /\ rcOpen["body"] = 0
    /\ rcOpen["reader"] = 0
    /\ rcLast.op = "Store.Get" =>
          LeftOpen(rcLast.events, "iterator") = Len(rcLast.events)

\* A body was acquired by a call that failed, and released.
C32_Witness ==
    /\ rcLast.op = "Client.get"
    /\ rcLast.err # Nil
    /\ rcLast.events = <<Acquire("body"), Release("body")>>

-----------------------------------------------------------------------------
(***************************************************************************)
(* roundRobin.nextIndex under concurrent callers. No history is kept, so   *)
(* that callers may call for ever.                                         *)
(***************************************************************************)

MaxRoundRobinMax == 2
MaxIterations == 3
RampSlack == 2

MinInt32 == (0 - MaxInt32) - 1

\* The values of the counter that are explored: those next to 0 and those
\* next to the two ends of the int32 range.
Explored(x) ==
    \/ x >= 0 /\ x < MaxCounter
    \/ x >= MaxInt32 - RampSlack
    \/ x < MinInt32 + RampSlack

\* Two callers keep each other retrying: each adds between the other's add
\* and compare-and-swap, so both swaps fail and the counter only grows. From
\* Ramp(k), the failed swap and the next add of the caller that is behind
\* lead to Ramp(k + 1) with the callers exchanged; Ramp(max + 2) is reached
\* from the new roundRobin when the counter stands at max.
Ramp(k) ==
    /\ niCurrent = k
    /\ \E a, b \in PublishCallers :
          /\ a # b
          /\ niPc = [c \in PublishCallers |-> IF c \in {a, b} THEN "cas" ELSE "idle"]
          /\ niI = [c \in PublishCallers |-> IF c = a THEN k - 1 ELSE IF c = b THEN k ELSE 0]

\* newRoundRobin(max)
NiInit ==
    /\ niMax \in 1..MaxRoundRobinMax
    /\ niLast = [index |-> 0, iterations |-> 0]
    /\ niIter = [c \in PublishCallers |-> 0]
    /\ niCurrent = 0
    /\ niPc = [c \in PublishCallers |-> "idle"]
    /\ niI = [c \in PublishCallers |-> 0]

\* The two callers far up the ramp.
NiRampInit ==
    /\ niMax \in 1..MaxRoundRobinMax
    /\ niLast = [index |-> 0, iterations |-> 0]
    /\ niIter = [c \in PublishCallers |-> MaxIterations]
    /\ Ramp(MaxInt32 - 1)

\* A caller enters nextIndex.
NiCall(c) ==
    /\ niPc[c] = "idle"
    /\ niPc' = [niPc EXCEPT ![c] = "add"]
    /\ niIter' = [niIter EXCEPT ![c] = 0]
    /\ UNCHANGED <<niMax, niCurrent, niI, niLast>>
    /\ UNCHANGED niOthers

\* return int(i)
NiReturn(c, i) ==
    /\ niPc' = [niPc EXCEPT ![c] = "idle"]
    /\ niLast' = [index |-> i, iterations |-> Min(niIter[c] + 1, MaxIterations)]

\* i := atomic.AddInt32(&r.current, 1); if int(i) > r.max the swap follows,
\* otherwise i is returned.
NiAdd(c) ==
    /\ niPc[c] = "add"
    /\ Explored(niCurrent)
    /\ niCurrent' = AddInt32(niCurrent)
    /\ niI' = [niI EXCEPT ![c] = AddInt32(niCurrent)]
    /\ IF AddInt32(niCurrent) > niMax
       THEN niPc' = [niPc EXCEPT ![c] = "cas"] /\ UNCHANGED niLast
       ELSE NiReturn(c, AddInt32(niCurrent))
    /\ UNCHANGED <<niMax, niIter>>
    /\ UNCHANGED niOthers

\* atomic.CompareAndSwapInt32(&r.current, i, 0): on success 0 is returned, on
\* failure the loop continues.
NiCompareAndSwap(c) ==
    /\ niPc[c] = "cas"
    /\ IF niCurrent = niI[c]
       THEN /\ niCurrent' = 0
            /\ niI' = [niI EXCEPT ![c] = 0]
            /\ NiReturn(c, 0)
            /\ UNCHANGED niIter
       ELSE /\ niPc' = [niPc EXCEPT ![c] = "add"]
            /\ niIter' = [niIter EXCEPT ![c] = Min(@ + 1, MaxIterations)]
            /\ UNCHANGED <<niCurrent, niI, niLast>>
    /\ UNCHANGED niMax
    /\ UNCHANGED niOthers

NiNext ==
    \E c \in PublishCallers :
        \/ NiCall(c)
        \/ NiAdd(c)
        \/ NiCompareAndSwap(c)

\* Every caller inside nextIndex keeps being scheduled.
NiFairness ==
    \A c \in PublishCallers : WF_vars(NiAdd(c)) /\ WF_vars(NiCompareAndSwap(c))

\* C35: every call of nextIndex returns, even when other goroutines call it
\* concurrently: under fair scheduling no caller is kept retrying for ever
\* (as long as the counter stays among the explored values).
C35_NextIndexReturns ==
    \A c \in PublishCallers :
        ([]<>Explored(niCurrent)) => ((niPc[c] # "idle") ~> (niPc[c] = "idle"))

\* C36: for any number of concurrent callers nextIndex returns an index in
\* [0, max].
C36_IndexInRange ==
    niLast.index >= 0 /\ niLast.index <= niMax

\* What holds as long as the counter has not wrapped round.
C36_IndexInRangeBeforeWrap ==
    (niCurrent >= 0 /\ niLast.index >= 0) => niLast.index <= niMax

\* The ramp is entered from the new roundRobin and climbed.
C36_RampEntered ==
    /\ niCurrent < MaxCounter
    /\ \E k \in 1..MaxCounter : k >= niMax + 3 /\ Ramp(k)

-----------------------------------------------------------------------------
(***************************************************************************)
(* referenceIterator: Next over the pages of a collection of references    *)
(* that may gain items while it is iterated.                               *)
(***************************************************************************)

MaxGrowth == 2
MaxRefCalls == 6

\* newReferenceIterator(items, nextPage, totalItems, ...): the collection
\* holds totalItems references, of which the first are handed over.
RiInit ==
    /\ riTotalItems \in 0..MaxTotalItems
    /\ riCurrentLen \in 0..MaxPageLen
    /\ riCurrentLen <= riTotalItems
    /\ riNextPage \in BOOLEAN
    /\ riCurrentLen < riTotalItems => riNextPage
    /\ riCurrentIndex = 0
    /\ riCollection = riTotalItems
    /\ riServed = riCurrentLen
    /\ riReturned = 0
    /\ riLast = "created"
    /\ riCalls = 0

\* A reference is added to the collection.
Grow ==
    /\ riCollection < riTotalItems + MaxGrowth
    /\ riCollection' = riCollection + 1
    /\ UNCHANGED <<riTotalItems, riCurrentLen, riCurrentIndex, riNextPage, riServed,
                   riReturned, riLast, riCalls>>
    /\ UNCHANGED riOthers

\* Next() inside the current page: the reference at currentIndex.
RefNextItem ==
    /\ riCalls < MaxRefCalls
    /\ riCalls' = riCalls + 1
    /\ riCurrentIndex < riCurrentLen
    /\ riCurrentIndex' = riCurrentIndex + 1
    /\ riReturned' = riReturned + 1
    /\ riLast' = "item"
    /\ UNCHANGED <<riTotalItems, riCurrentLen, riNextPage, riCollection, riServed>>
    /\ UNCHANGED riOthers

\* Next() at the end of the current page, with no further page: ErrNotFound.
RefNextNoPage ==
    /\ riCalls < MaxRefCalls
    /\ riCalls' = riCalls + 1
    /\ riCurrentIndex >= riCurrentLen
    /\ ~riNextPage
    /\ riLast' = "not found"
    /\ UNCHANGED <<riTotalItems, riCurrentLen, riCurrentIndex, riNextPage, riCollection,
                   riServed, riReturned>>
    /\ UNCHANGED riOthers

\* Next() at the end of the current page whose retrieval of the next page
\* fails: the error is returned, the iterator is unchanged.
RefNextGetFails ==
    /\ riCalls < MaxRefCalls
    /\ riCalls' = riCalls + 1
    /\ riCurrentIndex >= riCurrentLen
    /\ riNextPage
    /\ riLast' = "error"
    /\ UNCHANGED <<riTotalItems, riCurrentLen, riCurrentIndex, riNextPage, riCollection,
                   riServed, riReturned>>
    /\ UNCHANGED riOthers

\* Next() at the end of the current page: the next page, of the n references
\* that follow in the collection, is retrieved and its first reference
\* returned; an empty page is ErrNotFound.
RefNextFetch(n, more) ==
    /\ riCalls < MaxRefCalls
    /\ riCalls' = riCalls + 1
    /\ riCurrentIndex >= riCurrentLen
    /\ riNextPage
    /\ n <= riCollection - riServed
    /\ n = 0 => riServed = riCollection
    /\ riServed + n < riCollection => more
    /\ riCurrentLen' = n
    /\ riNextPage' = more
    /\ riServed' = riServed + n
    /\ IF n = 0
       THEN /\ riCurrentIndex' = 0
            /\ riLast' = "not found"
            /\ UNCHANGED riReturned
       ELSE /\ riCurrentIndex' = 1
            /\ riReturned' = riReturned + 1
            /\ riLast' = "item"
    /\ UNCHANGED <<riTotalItems, riCollection>>
    /\ UNCHANGED riOthers

RiNext ==
    \/ Grow
    \/ RefNextItem
    \/ RefNextNoPage
    \/ RefNextGetFails
    \/ \E n \in 0..MaxPageLen, more \in BOOLEAN : RefNextFetch(n, more)

\* C38: a reference iterator never returns more than TotalItems() references
\* over its lifetime, even if the collection gains items or pages while it
\* is being iterated.
C38_AtMostTotalItems ==
    riReturned <= riTotalItems

\* What holds: Next returns no more references than the collection holds,
\* hence no more than TotalItems() when the collection does not change.
C38_AtMostCollection ==
    /\ riReturned <= riCollection
    /\ riCollection = riTotalItems => riReturned <= riTotalItems

\* Next returned a reference that was added after the iterator was created.
C38_Witness ==
    /\ riLast = "item"
    /\ riReturned = riTotalItems + 1

-----------------------------------------------------------------------------

\* The activity iterators of the client
\* (src/pkg/activitypub/resthandler/activityhandler_test.go, package client):
\* GetActivities reads a collection, or a page of it, and returns an
\* iterator that follows the next links (Forward) or the prev links
\* (Reverse).  The collection is the one the paging handlers serve: pgN
\* items in pages of pgP, in the order pgOrder; it does not change.

Forward == "forward"
Reverse == "reverse"
Orders == {Forward, Reverse}

\* sort.SliceStable sorts blocks of this many items by insertion and then
\* merges them.
BlockSize == 20

\* Page lengths on both sides of the block size of the sort, and of twice it.
LongPageLengths == {BlockSize - 1, BlockSize + 1, BlockSize + 2, 2 * BlockSize + 1}

\* The less function of reverseSort: it compares the two indices it is
\* given, never the items at them.
reverseSortLess(i, j) == i > j

\* The items as the sort sees them: positions count from 0.
SliceOf(items) == [k \in 0..(Len(items) - 1) |-> items[k + 1]]
ItemsOf(data) == [i \in 1..Cardinality(DOMAIN data) |-> data[i - 1]]

\* TRUE, once the items are computed: every step of a loop below works on
\* the items the step before has left.
Evaluated(data) == DOMAIN data = DOMAIN data

Swap(data, i, j) == [data EXCEPT ![i] = data[j], ![j] = data[i]]

\* The inner loop of insertionSort: the item at j moves down while less
\* says it comes before its left neighbour.
RECURSIVE insertionSortInner(_, _, _)
insertionSortInner(data, a, j) ==
    IF Evaluated(data) /\ j > a /\ reverseSortLess(j, j - 1)
    THEN insertionSortInner(Swap(data, j, j - 1), a, j - 1)
    ELSE data

RECURSIVE insertionSortFrom(_, _, _, _)
insertionSortFrom(data, a, b, i) ==
    IF Evaluated(data) /\ i < b
    THEN insertionSortFrom(insertionSortInner(data, a, i), a, b, i + 1)
    ELSE data

\* insertionSort sorts data[a:b].
insertionSort(data, a, b) == insertionSortFrom(data, a, b, a + 1)

\* rotate exchanges the consecutive blocks data[a:m] and data[m:b].
rotate(data, a, m, b) ==
    [k \in DOMAIN data |->
        IF k < a \/ k >= b THEN data[k]
        ELSE IF k < a + (b - m) THEN data[m + (k - a)]
        ELSE data[k - (b - m)]]

\* The binary searches of symMerge.
RECURSIVE searchAfterLess(_, _, _)
searchAfterLess(a, i, j) ==
    IF i < j
    THEN LET h == (i + j) \div 2
         IN  IF reverseSortLess(h, a) THEN searchAfterLess(a, h + 1, j)
             ELSE searchAfterLess(a, i, h)
    ELSE i

RECURSIVE searchNotLess(_, _, _)
searchNotLess(m, i, j) ==
    IF i < j
    THEN LET h == (i + j) \div 2
         IN  IF ~reverseSortLess(m, h) THEN searchNotLess(m, h + 1, j)
             ELSE searchNotLess(m, i, h)
    ELSE i

RECURSIVE searchSplit(_, _, _)
searchSplit(p, start, r) ==
    IF start < r
    THEN LET c == (start + r) \div 2
         IN  IF ~reverseSortLess(p - c, c) THEN searchSplit(p, c + 1, r)
             ELSE searchSplit(p, start, c)
    ELSE start

\* Swap(k, k+1) for k = a .. i-2: the item at a moves up to i - 1.
RECURSIVE swapUp(_, _, _)
swapUp(data, k, i) ==
    IF Evaluated(data) /\ k < i - 1 THEN swapUp(Swap(data, k, k + 1), k + 1, i) ELSE data

\* Swap(k, k-1) for k = m .. i+1: the item at m moves down to i.
RECURSIVE swapDown(_, _, _)
swapDown(data, k, i) ==
    IF Evaluated(data) /\ k > i THEN swapDown(Swap(data, k, k - 1), k - 1, i) ELSE data

\* symMerge merges the sorted blocks data[a:m] and data[m:b].
RECURSIVE symMerge(_, _, _, _)
symMerge(data, a, m, b) ==
    IF m - a = 1 THEN swapUp(data, a, searchAfterLess(a, m, b))
    ELSE IF b - m = 1 THEN swapDown(data, m, searchNotLess(m, a, m))
    ELSE
        LET mid == (a + b) \div 2
            n == mid + m
            start == IF m > mid THEN searchSplit(n - 1, n - b, mid)
                     ELSE searchSplit(n - 1, a, m)
            end == n - start
            rotated == IF start < m /\ m < end THEN rotate(data, start, m, end)
                       ELSE data
            lower == IF a < start /\ start < mid
                     THEN symMerge(rotated, a, start, mid)
                     ELSE rotated
        IN  IF mid < end /\ end < b THEN symMerge(lower, mid, end, b)
            ELSE lower

\* The first loop of stable: insertion sort of every block.
RECURSIVE stableBlocks(_, _, _, _)
stableBlocks(data, n, a, b) ==
    IF Evaluated(data) /\ b <= n
    THEN stableBlocks(insertionSort(data, a, b), n, b, b + BlockSize)
    ELSE insertionSort(data, a, n)

\* One pass of merges of neighbouring blocks of blockSize items.
RECURSIVE stableMergePass(_, _, _, _, _)
stableMergePass(data, n, blockSize, a, b) ==
    IF Evaluated(data) /\ b <= n
    THEN stableMergePass(symMerge(data, a, a + blockSize, b), n, blockSize,
                         b, b + 2 * blockSize)
    ELSE IF a + blockSize < n THEN symMerge(data, a, a + blockSize, n)
    ELSE data

RECURSIVE stableMerges(_, _, _)
stableMerges(data, n, blockSize) ==
    IF Evaluated(data) /\ blockSize < n
    THEN stableMerges(stableMergePass(data, n, blockSize, 0, 2 * blockSize),
                      n, 2 * blockSize)
    ELSE data

\* sort.SliceStable with the less function of reverseSort.
SliceStable(items) ==
    LET n == Len(items)
    IN  ItemsOf(stableMerges(stableBlocks(SliceOf(items), n, 0, BlockSize),
                             n, BlockSize))

KeepOrder(items) == items

reverseSort(items) == SliceStable(items)

Reversed(items) == [i \in 1..Len(items) |-> items[Len(items) - i + 1]]

\* The getNext and appendActivity functions of the two iterators.
getNext(order, next, prev) == IF order = Forward THEN next ELSE prev

appendActivity(order, activities, activity) ==
    IF order = Forward THEN Append(activities, activity)
    ELSE <<activity>> \o activities

RECURSIVE appendAll(_, _, _)
appendAll(order, activities, items) ==
    IF items = <<>> THEN activities
    ELSE appendAll(order, appendActivity(order, activities, Head(items)),
                   Tail(items))

\* The links of the collection root: first is the page link without a page
\* number, last names the last page.
CollectionFirst == getPageID(-1)
CollectionLast == getPageID(getLastPageNum(pgN, pgP, pgOrder))

NoIterator ==
    [created |-> FALSE, currentItems |-> <<>>, currentIndex |-> 0,
     numProcessed |-> 0, nextPage |-> NoLink, totalItems |-> 0]

newActivityIterator(items, nextPage, totalItems) ==
    [created |-> TRUE, currentItems |-> items, currentIndex |-> 0,
     numProcessed |-> 0, nextPage |-> nextPage, totalItems |-> totalItems]

newForwardActivityIterator(items, nextPage, totalItems) ==
    newActivityIterator(items, nextPage, totalItems)

newReverseActivityIterator(items, nextPage, totalItems) ==
    newActivityIterator(reverseSort(items), nextPage, totalItems)

activityIteratorFromCollection(order) ==
    IF order = Forward
    THEN newForwardActivityIterator(<<>>, CollectionFirst, pgN)
    ELSE newReverseActivityIterator(<<>>, CollectionLast, pgN)

activityIteratorFromCollectionPage(link, order) ==
    LET page == getIDPrevNextURL(link)
    IN  IF order = Forward
        THEN newForwardActivityIterator(page.orderedItems, page.next, pgN)
        ELSE newReverseActivityIterator(page.orderedItems, page.prev, pgN)

\* The number of pages of the collection.
NumPages == CeilDiv(pgN, pgP)

RvInit ==
    /\ \/ pgN \in 0..MaxItems /\ pgP \in 1..MaxPageSize
       \/ pgN \in LongPageLengths /\ pgP \in LongPageLengths
    /\ pgOrder \in SortOrders
    /\ rvIri \in {NoLink} \cup {getPageID(k) : k \in 0..(NumPages - 1)}
    /\ rvIt = [o \in Orders |-> NoIterator]
    /\ rvYield = [o \in Orders |-> <<>>]
    /\ rvDone = [o \in Orders |-> FALSE]

\* GetActivities(iri, order).
CreateIterator(order) ==
    /\ ~rvIt[order].created
    /\ rvIt' = [rvIt EXCEPT ![order] =
                   IF rvIri = NoLink THEN activityIteratorFromCollection(order)
                   ELSE activityIteratorFromCollectionPage(rvIri, order)]
    /\ UNCHANGED <<rvIri, rvYield, rvDone>>
    /\ UNCHANGED rvOthers

\* Next finds every item processed, or no page left to read: ErrNotFound.
IterNextNotFound(order) ==
    LET it == rvIt[order]
    IN  /\ it.created
        /\ ~rvDone[order]
        /\ \/ it.numProcessed >= it.totalItems
           \/ it.currentIndex >= Len(it.currentItems) /\ it.nextPage = NoLink
        /\ rvDone' = [rvDone EXCEPT ![order] = TRUE]
        /\ UNCHANGED <<rvIri, rvIt, rvYield>>
        /\ UNCHANGED rvOthers

\* Next returns the item at currentIndex of the current page.
IterNextItem(order) ==
    LET it == rvIt[order]
    IN  /\ it.created
        /\ ~rvDone[order]
        /\ it.numProcessed < it.totalItems
        /\ it.currentIndex < Len(it.currentItems)
        /\ rvYield' = [rvYield EXCEPT ![order] =
                          Append(@, it.currentItems[it.currentIndex + 1])]
        /\ rvIt' = [rvIt EXCEPT ![order].currentIndex = @ + 1,
                                ![order].numProcessed = @ + 1]
        /\ UNCHANGED <<rvIri, rvDone>>
        /\ UNCHANGED rvOthers

\* Next is at the end of the current page and reads the next one: the
\* first item of a page with items is returned, a page without items is
\* ErrNotFound.
IterNextPage(order) ==
    LET it == rvIt[order]
        page == getIDPrevNextURL(it.nextPage)
        activities == appendAll(order, <<>>, page.orderedItems)
        fetched == [it EXCEPT !.currentIndex = 0,
                              !.currentItems = activities,
                              !.nextPage = getNext(order, page.next, page.prev)]
    IN  /\ it.created
        /\ ~rvDone[order]
        /\ it.numProcessed < it.totalItems
        /\ it.currentIndex >= Len(it.currentItems)
        /\ it.nextPage # NoLink
        /\ IF Len(activities) = 0
           THEN /\ rvIt' = [rvIt EXCEPT ![order] = fetched]
                /\ rvDone' = [rvDone EXCEPT ![order] = TRUE]
                /\ UNCHANGED rvYield
           ELSE /\ rvIt' = [rvIt EXCEPT ![order] =
                               [fetched EXCEPT !.currentIndex = 1,
                                               !.numProcessed = @ + 1]]
                /\ rvYield' = [rvYield EXCEPT ![order] = Append(@, activities[1])]
                /\ UNCHANGED rvDone
        /\ UNCHANGED rvIri
        /\ UNCHANGED rvOthers

RvNext ==
    \/ \E order \in Orders : CreateIterator(order)
    \/ \E order \in Orders : IterNextNotFound(order)
    \/ \E order \in Orders : IterNextItem(order)
    \/ \E order \in Orders : IterNextPage(order)

\* Both iterators were asked for the collection itself, or for the only page
\* of a collection of one page: the two then cover the same items.
SameItemsAsked == rvIri = NoLink \/ NumPages = 1

\* C39: for a collection that does not change, the activities a Reverse
\* iterator returns until it reports ErrNotFound are the activities a
\* Forward iterator returns, in the reverse order, whatever the lengths of
\* the pages.
C39_ReverseIsForwardReversed ==
    (rvDone[Forward] /\ rvDone[Reverse] /\ SameItemsAsked)
        => rvYield[Reverse] = Reversed(rvYield[Forward])

\* C39 witness: both iterators have come to the end of a collection of
\* several pages, the last of them partly filled, and the Reverse one
\* returned the Forward sequence reversed.
C39_Witness ==
    /\ rvDone[Forward] /\ rvDone[Reverse]
    /\ rvIri = NoLink
    /\ NumPages >= 3
    /\ pgN % pgP > 0
    /\ Len(rvYield[Forward]) = pgN
    /\ rvYield[Reverse] = Reversed(rvYield[Forward])

\* reverseSort on a page longer than two blocks of the sort: a Reverse
\* iterator asked for the only page of a collection returned the page
\* reversed.
C39_LongPageReversed ==
    /\ rvDone[Forward] /\ rvDone[Reverse]
    /\ rvIri # NoLink
    /\ NumPages = 1
    /\ pgN > 2 * BlockSize
    /\ rvYield[Reverse] = Reversed(rvYield[Forward])

-----------------------------------------------------------------------------

\* The subsystems share no state: while one of them runs, the others rest in
\* one of their initial states.
TmAtRest == TmInit /\ expiryOf = [k \in Keys |-> MaxTime + 1]
ObAtRest == ObInit /\ coreIndex = [a \in Anchors |-> Suffixes]
RsAtRest == RsInit /\ localCAS = CasOf({})
WalkAtRest ==
    WalkInit /\ upRefs = [n \in Nodes |-> {}] /\ wProcessed = {}
PgAtRest == PgInit /\ pgN = 0 /\ pgP = 1 /\ pgOrder = SortAscending
ItAtRest == ItInit /\ itTotalItems = 0 /\ itCurrentLen = 0 /\ itNextPage = FALSE
RrAtRest == RrInit /\ rrPublishers = 1
DsAtRest == DsInit /\ dsIndex = [s \in Suffixes |-> NoAnchor]
UpAtRest == UpInit
ApAtRest == ApInit
AuAtRest == AuInit
RcAtRest == RcInit
NiAtRest == NiInit /\ niMax = 1 /\ niCurrent = 0
RiAtRest == RiInit /\ riTotalItems = 0 /\ riNextPage = FALSE
\* The paging handlers before any request, whatever the collection is.
PgIdle ==
    /\ pgPc = "root" /\ pgLink = NoLink /\ pgFirst = -1 /\ pgLast = -1
    /\ pgVisited = <<>> /\ pgItems = <<>> /\ pgReq = NoLink /\ pgResp = NoResponse
RvAtRest == RvInit /\ rvIri = NoLink
LkAtRest ==
    LkInit /\ lkAnchor = [Hashlink |-> ValidHashlink, LocalHashlink |-> "", AttributedTo |-> ""]

LifecycleInit ==
    LcInit /\ TmAtRest /\ ObAtRest /\ RsAtRest /\ WalkAtRest /\ PgAtRest
    /\ ItAtRest /\ LkAtRest /\ RrAtRest /\ DsAtRest /\ UpAtRest /\ ApAtRest
    /\ AuAtRest /\ RcAtRest /\ NiAtRest /\ RiAtRest
    /\ RvAtRest

TaskMgrInit ==
    LcInit /\ TmInit /\ ObAtRest /\ RsAtRest /\ WalkAtRest /\ PgAtRest
    /\ ItAtRest /\ LkAtRest /\ RrAtRest /\ DsAtRest /\ UpAtRest /\ ApAtRest
    /\ AuAtRest /\ RcAtRest /\ NiAtRest /\ RiAtRest
    /\ RvAtRest

Init ==
    LcInit /\ TmAtRest /\ ObInit /\ RsAtRest /\ WalkAtRest /\ PgAtRest
    /\ ItAtRest /\ LkAtRest /\ RrAtRest /\ DsAtRest /\ UpAtRest /\ ApAtRest
    /\ AuAtRest /\ RcAtRest /\ NiAtRest /\ RiAtRest
    /\ RvAtRest

ResolverInit ==
    LcInit /\ TmAtRest /\ ObAtRest /\ RsInit /\ WalkAtRest /\ PgAtRest
    /\ ItAtRest /\ LkAtRest /\ RrAtRest /\ DsAtRest /\ UpAtRest /\ ApAtRest
    /\ AuAtRest /\ RcAtRest /\ NiAtRest /\ RiAtRest
    /\ RvAtRest

WalkSpecInit ==
    LcInit /\ TmAtRest /\ ObAtRest /\ RsAtRest /\ WalkInit /\ PgAtRest
    /\ ItAtRest /\ LkAtRest /\ RrAtRest /\ DsAtRest /\ UpAtRest /\ ApAtRest
    /\ AuAtRest /\ RcAtRest /\ NiAtRest /\ RiAtRest
    /\ RvAtRest

PageSpecInit ==
    LcInit /\ TmAtRest /\ ObAtRest /\ RsAtRest /\ WalkAtRest /\ PgInit
    /\ ItAtRest /\ LkAtRest /\ RrAtRest /\ DsAtRest /\ UpAtRest /\ ApAtRest
    /\ AuAtRest /\ RcAtRest /\ NiAtRest /\ RiAtRest
    /\ RvAtRest

IterSpecInit ==
    LcInit /\ TmAtRest /\ ObAtRest /\ RsAtRest /\ WalkAtRest /\ PgAtRest
    /\ ItInit /\ LkAtRest /\ RrAtRest /\ DsAtRest /\ UpAtRest /\ ApAtRest
    /\ AuAtRest /\ RcAtRest /\ NiAtRest /\ RiAtRest
    /\ RvAtRest

LikeSpecInit ==
    LcInit /\ TmAtRest /\ ObAtRest /\ RsAtRest /\ WalkAtRest /\ PgAtRest
    /\ ItAtRest /\ LkInit /\ RrAtRest /\ DsAtRest /\ UpAtRest /\ ApAtRest
    /\ AuAtRest /\ RcAtRest /\ NiAtRest /\ RiAtRest
    /\ RvAtRest

PoolSpecInit ==
    LcInit /\ TmAtRest /\ ObAtRest /\ RsAtRest /\ WalkAtRest /\ PgAtRest
    /\ ItAtRest /\ LkAtRest /\ RrInit /\ DsAtRest /\ UpAtRest /\ ApAtRest
    /\ AuAtRest /\ RcAtRest /\ NiAtRest /\ RiAtRest
    /\ RvAtRest

StoreSpecInit ==
    LcInit /\ TmAtRest /\ ObAtRest /\ RsAtRest /\ WalkAtRest /\ PgAtRest
    /\ ItAtRest /\ LkAtRest /\ RrAtRest /\ DsInit /\ UpAtRest /\ ApAtRest
    /\ AuAtRest /\ RcAtRest /\ NiAtRest /\ RiAtRest
    /\ RvAtRest

UnpublishedSpecInit ==
    LcInit /\ TmAtRest /\ ObAtRest /\ RsAtRest /\ WalkAtRest /\ PgAtRest
    /\ ItAtRest /\ LkAtRest /\ RrAtRest /\ DsAtRest /\ UpInit /\ ApAtRest
    /\ AuAtRest /\ RcAtRest /\ NiAtRest /\ RiAtRest
    /\ RvAtRest

ClientSpecInit ==
    LcInit /\ TmAtRest /\ ObAtRest /\ RsAtRest /\ WalkAtRest /\ PgAtRest
    /\ ItAtRest /\ LkAtRest /\ RrAtRest /\ DsAtRest /\ UpAtRest /\ ApInit
    /\ AuAtRest /\ RcAtRest /\ NiAtRest /\ RiAtRest
    /\ RvAtRest

AuthSpecInit ==
    LcInit /\ TmAtRest /\ ObAtRest /\ RsAtRest /\ WalkAtRest /\ PgAtRest
    /\ ItAtRest /\ LkAtRest /\ RrAtRest /\ DsAtRest /\ UpAtRest /\ ApAtRest
    /\ AuInit /\ RcAtRest /\ NiAtRest /\ RiAtRest
    /\ RvAtRest

ResourceSpecInit ==
    LcInit /\ TmAtRest /\ ObAtRest /\ RsAtRest /\ WalkAtRest /\ PgAtRest
    /\ ItAtRest /\ LkAtRest /\ RrAtRest /\ DsAtRest /\ UpAtRest /\ ApAtRest
    /\ AuAtRest /\ RcInit /\ NiAtRest /\ RiAtRest
    /\ RvAtRest

NextIndexSpecInit ==
    LcInit /\ TmAtRest /\ ObAtRest /\ RsAtRest /\ WalkAtRest /\ PgAtRest
    /\ ItAtRest /\ LkAtRest /\ RrAtRest /\ DsAtRest /\ UpAtRest /\ ApAtRest
    /\ AuAtRest /\ RcAtRest /\ NiInit /\ RiAtRest
    /\ RvAtRest

NextIndexWrapInit ==
    LcInit /\ TmAtRest /\ ObAtRest /\ RsAtRest /\ WalkAtRest /\ PgAtRest
    /\ ItAtRest /\ LkAtRest /\ RrAtRest /\ DsAtRest /\ UpAtRest /\ ApAtRest
    /\ AuAtRest /\ RcAtRest /\ NiRampInit /\ RiAtRest
    /\ RvAtRest

RefIterSpecInit ==
    LcInit /\ TmAtRest /\ ObAtRest /\ RsAtRest /\ WalkAtRest /\ PgAtRest
    /\ ItAtRest /\ LkAtRest /\ RrAtRest /\ DsAtRest /\ UpAtRest /\ ApAtRest
    /\ AuAtRest /\ RcAtRest /\ NiAtRest /\ RiInit
    /\ RvAtRest

ReverseSpecInit ==
    LcInit /\ TmAtRest /\ ObAtRest /\ RsAtRest /\ WalkAtRest /\ PgIdle
    /\ ItAtRest /\ LkAtRest /\ RrAtRest /\ DsAtRest /\ UpAtRest /\ ApAtRest
    /\ AuAtRest /\ RcAtRest /\ NiAtRest /\ RiAtRest
    /\ RvInit

LifecycleSpec == LifecycleInit /\ [][LcNext]_vars

LifecycleFairSpec == LifecycleInit /\ [][LcNext]_vars /\ LcFairness

TaskMgrSpec == TaskMgrInit /\ [][TmNext]_vars

Spec == Init /\ [][ObNext]_vars

ResolverSpec == ResolverInit /\ [][RsNext]_vars

WalkSpec == WalkSpecInit /\ [][WalkNext]_vars

PageSpec == PageSpecInit /\ [][PgNext]_vars

IterSpec == IterSpecInit /\ [][ItNext]_vars

LikeSpec == LikeSpecInit /\ [][LkNext]_vars

PoolSpec == PoolSpecInit /\ [][RrNext]_vars

StoreSpec == StoreSpecInit /\ [][DsNext]_vars

UnpublishedSpec == UnpublishedSpecInit /\ [][UpNext]_vars

ClientSpec == ClientSpecInit /\ [][ApNext]_vars

AuthSpec == AuthSpecInit /\ [][AuNext]_vars

ResourceSpec == ResourceSpecInit /\ [][RcNext]_vars

NextIndexFairSpec == NextIndexSpecInit /\ [][NiNext]_vars /\ NiFairness

NextIndexWrapSpec == NextIndexWrapInit /\ [][NiNext]_vars

RefIterSpec == RefIterSpecInit /\ [][RiNext]_vars

ReverseSpec == ReverseSpecInit /\ [][RvNext]_vars

=============================================================================
